---- MODULE Spec2Model ----
(***************************************************************************)
(* VocalHire mock-interview backend: the WebSocket handler                 *)
(* (backend/app/main.py), the interviewer agent                            *)
(* (backend/app/agents/interviewer_agent.py), the completeness oracle      *)
(* wrapper (backend/app/services/gemini_service.py), the file store        *)
(* (backend/app/storage/file_storage.py) and the graph                     *)
(* (backend/app/agents/interview_graph.py).                                *)
(*                                                                         *)
(* One handler coroutine per session.  An action is one run of the         *)
(* handler between two suspension points (an await on the socket or on     *)
(* the language model); save_session contains no await of its own, so it   *)
(* belongs to the block that calls it.                                     *)
(*                                                                         *)
(* Spec, SpecWorst, SpecPair and SpecFaulty run the handler from the       *)
(* connection on; SpecAgent runs its loop from a given state, SpecStore    *)
(* the file store alone and SpecGraph the graph alone.                     *)
(***************************************************************************)
EXTENDS Integers, Sequences, FiniteSets, TLC

(***************************************************************************)
(* Bounds of the model.                                                    *)
(***************************************************************************)
\* how many follow-ups per run the oracle's verdicts may cause
MaxProbes == 2
\* how many inbound frames may wait unread on one socket
MaxInbox == 1
\* how many follow-ups the verdicts may cause in a run of the longest session
MaxWorstProbes == 16
\* how many follow-ups the verdicts may cause in a run of two sessions
MaxPairProbes == 1
\* failures of the storage or of the model in the run with failures, and
\* the follow-ups of that run
MaxFaults == 2
MaxFaultyProbes == 1
\* calls of save_session per session id in the run of the store alone
MaxStoreSaves == 2

(***************************************************************************)
(* Program constants.                                                      *)
(***************************************************************************)
MAX_ANSWER_LENGTH == 2000
max_follow_ups == 2

Sessions == {"s1", "s2"}

(***************************************************************************)
(* Text.  A Python str is kept run-length encoded: a sequence of runs      *)
(* [ch, n] with n >= 1 and no two neighbouring runs of the same character. *)
(* Two strs are equal iff their encodings are equal.                       *)
(***************************************************************************)
Run(c, k) == <<[ch |-> c, n |-> k]>>

EmptyStr == <<>>

\* s + t
Concat(s, t) ==
    IF s = <<>> THEN t
    ELSE IF t = <<>> THEN s
    ELSE IF s[Len(s)].ch = t[1].ch
         THEN SubSeq(s, 1, Len(s) - 1)
                \o Run(t[1].ch, s[Len(s)].n + t[1].n)
                \o Tail(t)
         ELSE s \o t

RECURSIVE StrLen(_)
\* len(s)
StrLen(s) == IF s = <<>> THEN 0 ELSE s[1].n + StrLen(Tail(s))

Whitespace == {" ", "\t", "\n"}

RECURSIVE LStrip(_)
LStrip(s) ==
    IF s = <<>> THEN s
    ELSE IF s[1].ch \in Whitespace THEN LStrip(Tail(s)) ELSE s

RECURSIVE RStrip(_)
RStrip(s) ==
    IF s = <<>> THEN s
    ELSE IF s[Len(s)].ch \in Whitespace
         THEN RStrip(SubSeq(s, 1, Len(s) - 1))
         ELSE s

\* s.strip()
Strip(s) == RStrip(LStrip(s))

\* s is a prefix of t, as strings
IsPrefix(s, t) ==
    \/ s = <<>>
    \/ /\ Len(s) <= Len(t)
       /\ SubSeq(t, 1, Len(s) - 1) = SubSeq(s, 1, Len(s) - 1)
       /\ t[Len(s)].ch = s[Len(s)].ch
       /\ s[Len(s)].n <= t[Len(s)].n

(***************************************************************************)
(* The question catalog (InterviewerAgent.QUESTIONS).  question_text is    *)
(* abbreviated to a tag; has_coverage says whether expected_coverage is a  *)
(* list.                                                                   *)
(***************************************************************************)
QUESTIONS ==
    << [category |-> "introduction",         question_text |-> "Q_introduction",         has_coverage |-> TRUE],
       [category |-> "motivation",           question_text |-> "Q_motivation",           has_coverage |-> FALSE],
       [category |-> "industry_experience",  question_text |-> "Q_industry_experience",  has_coverage |-> TRUE],
       [category |-> "learnings",            question_text |-> "Q_learnings",            has_coverage |-> FALSE],
       [category |-> "strengths_weaknesses", question_text |-> "Q_strengths_weaknesses", has_coverage |-> FALSE],
       [category |-> "future_vision",        question_text |-> "Q_future_vision",        has_coverage |-> FALSE],
       [category |-> "unique_value",         question_text |-> "Q_unique_value",         has_coverage |-> FALSE],
       [category |-> "availability",         question_text |-> "Q_availability",         has_coverage |-> FALSE] >>

NoQuestion == [category |-> "", question_text |-> "", has_coverage |-> FALSE]

\* mutant: past the end the catalog starts again
get_current_question_Wrap(state) ==
    IF state.current_question_index >= Len(QUESTIONS)
    THEN QUESTIONS[1]
    ELSE QUESTIONS[state.current_question_index + 1]

\* InterviewerAgent.get_current_question; NoQuestion stands for None
get_current_question(state) ==
    IF state.current_question_index >= Len(QUESTIONS)
    THEN NoQuestion
    ELSE QUESTIONS[state.current_question_index + 1]

(***************************************************************************)
(* Inbound frames, after json.loads.  k: "malformed" (json.loads raises),  *)
(* "dict" (a JSON object, t/v describe its "content" entry) or "bare" (any *)
(* other JSON value, t/v describe the value).  t: "absent" (no "content"   *)
(* key), "null", "num" (a non-zero number) or "str" (v is the text).       *)
(***************************************************************************)
Frame(k, t, v) == [k |-> k, t |-> t, v |-> v]

TextA == Run("A", 1)
TextB == Run("B", 1)
TextMax == Run("A", MAX_ANSWER_LENGTH)
TextOver == Run("A", MAX_ANSWER_LENGTH + 1)
TextBlank == Run(" ", 2)
TextBlankMax == Run(" ", MAX_ANSWER_LENGTH)

\* the wordings the client uses for the first answer to a question, and for
\* an answer to a follow-up
InitialWordings == {TextA}
FollowUpWordings == {TextB, TextMax}

Frames ==
    { Frame("dict", "str", TextA),
      Frame("dict", "str", TextB),
      Frame("dict", "str", TextMax),
      Frame("bare", "str", TextA),
      Frame("dict", "str", TextOver),
      Frame("dict", "str", EmptyStr),
      Frame("dict", "str", TextBlank),
      Frame("dict", "str", TextBlankMax),
      Frame("dict", "absent", EmptyStr),
      Frame("dict", "null", EmptyStr),
      Frame("dict", "num", EmptyStr),
      Frame("bare", "num", EmptyStr),
      Frame("malformed", "absent", EmptyStr) }

\* the frames of a client that words every answer the same way: an answer,
\* an answer to a follow-up, an empty answer and a frame that is no JSON
PlainFrames ==
    { Frame("dict", "str", TextA),
      Frame("dict", "str", TextB),
      Frame("dict", "str", EmptyStr),
      Frame("malformed", "absent", EmptyStr) }

\* json.loads raised before answer_text was bound
Undecodable == [t |-> "undecodable", v |-> EmptyStr]

\* answer_text is not bound
NoAnswer == [t |-> "none", v |-> EmptyStr]

\* main.py 186-191: the value bound to answer_text
AnswerTextOf(f) ==
    IF f.k = "malformed" THEN Undecodable
    ELSE IF f.k = "dict" /\ f.t = "absent"
    THEN [t |-> "str", v |-> EmptyStr]
    ELSE [t |-> f.t, v |-> f.v]

\* Python truth value of answer_text
Truthy(a) == IF a.t = "str" THEN a.v # EmptyStr ELSE a.t = "num"

\* main.py 194: not answer_text or not answer_text.strip(), for a str or a
\* falsy value (a truthy non-str has no strip and raises instead)
IsEmptyAnswer(a) == ~Truthy(a) \/ Strip(a.v) = EmptyStr

\* mutant: the ceiling itself is refused
IsTooLong_Inclusive(a) == StrLen(a.v) >= MAX_ANSWER_LENGTH

\* main.py 206
IsTooLong(a) == StrLen(a.v) > MAX_ANSWER_LENGTH

\* what the handler does with a frame: main.py 183-213
Classify(f) ==
    IF f.k = "malformed" THEN "decode_error"
    ELSE LET a == AnswerTextOf(f)
         IN  IF Truthy(a) /\ a.t # "str" THEN "attribute_error"
             ELSE IF IsEmptyAnswer(a) THEN "empty"
             ELSE IF IsTooLong(a) THEN "too_long"
             ELSE "accepted"

(***************************************************************************)
(* Session state (InterviewState), answers (InterviewAnswer), messages.    *)
(***************************************************************************)
NewState ==
    [current_question_index |-> 0, answers |-> <<>>,
     is_completed |-> FALSE, completed_at |-> "None"]

Msg(type, content, category, follow) ==
    [type |-> type, content |-> content, category |-> category,
     is_follow_up |-> follow]

NoMsg == Msg("none", "", "", FALSE)

(***************************************************************************)
(* The session store: one file per session id, holding the JSON text of    *)
(* the SessionData last written; the timestamps other than completed_at    *)
(* are left out.  Python values are written "True", "False", "None" and    *)
(* "now" (a datetime), JSON values "true", "false", "null" and "ISO_NOW".  *)
(***************************************************************************)
\* model_dump(mode='json') of the value of a bool field: a value that is no
\* bool is written as it is (pydantic warns and goes on)
DumpBool(v) ==
    CASE v = "True" -> "true"
      [] v = "False" -> "false"
      [] v = "None" -> "null"

\* model_dump(mode='json') of an Optional[datetime]
DumpTime(t) == IF t = "None" THEN "null" ELSE "ISO_NOW"

RECURSIVE DumpAnswers(_)
\* model_dump(mode='json') of the answers
DumpAnswers(answers) ==
    IF answers = <<>> THEN <<>>
    ELSE Append(DumpAnswers(SubSeq(answers, 1, Len(answers) - 1)),
                [answers[Len(answers)] EXCEPT !.is_complete = DumpBool(@)])

\* file_storage.py 46: session_data.model_dump(mode='json')
model_dump(state, fb) ==
    [state |-> [current_question_index |-> state.current_question_index,
                answers |-> DumpAnswers(state.answers),
                is_completed |-> IF state.is_completed THEN "true" ELSE "false",
                completed_at |-> DumpTime(state.completed_at)],
     feedback |-> IF fb = "None" THEN "null" ELSE fb]

\* the Python value of a JSON true, false or null
ParseBool(j) ==
    CASE j = "true" -> "True"
      [] j = "false" -> "False"
      [] j = "null" -> "None"

\* the Python value pydantic makes of a JSON datetime or null
ParseTime(j) == IF j = "null" THEN "None" ELSE "now"

RECURSIVE ParseAnswers(_)
ParseAnswers(answers) ==
    IF answers = <<>> THEN <<>>
    ELSE Append(ParseAnswers(SubSeq(answers, 1, Len(answers) - 1)),
                [answers[Len(answers)] EXCEPT !.is_complete = ParseBool(@)])

\* the InterviewState whose dump a JSON object is
ParseState(j) ==
    [current_question_index |-> j.current_question_index,
     answers |-> ParseAnswers(j.answers),
     is_completed |-> j.is_completed = "true",
     completed_at |-> ParseTime(j.completed_at)]

\* schemas.py 57 at file_storage.py 72: the validation of SessionData(**data)
\* refuses an is_complete that is no bool
IsValidData(data) ==
    \A i \in 1..Len(data.state.answers) :
        data.state.answers[i].is_complete \in {"true", "false"}

\* file_storage.py 72: SessionData(**data), for data that is valid
SessionData(data) ==
    [found |-> TRUE,
     state |-> ParseState(data.state),
     feedback |-> IF data.feedback = "null" THEN "None" ELSE data.feedback]

\* load_session returns None
NoSession == [found |-> FALSE, state |-> NewState, feedback |-> "None"]

NoFile ==
    [exists |-> FALSE, readable |-> FALSE, data |-> model_dump(NewState, "None")]

\* a file that open(path, 'w') has emptied and whose text was not written to
\* the end: json.load raises on it
Truncated ==
    [exists |-> TRUE, readable |-> FALSE, data |-> model_dump(NewState, "None")]

\* what can happen to a write: nothing, open raises (the file stays as it
\* was), or the write raises after open has emptied the file
StorageFaults == {"none", "open", "write"}

\* mutant: every session is written to the same file
save_session_OneFile(store, s, state, fb, fault) ==
    [ok |-> TRUE,
     store |-> [t \in Sessions |->
                  [exists |-> TRUE, readable |-> TRUE,
                   data |-> model_dump(state, fb)]]]

\* mutant: a write that fails removes the file
save_session_Unlink(store, s, state, fb, fault) ==
    IF fault = "none"
    THEN [ok |-> TRUE,
          store |-> [store EXCEPT
                       ![s] = [exists |-> TRUE, readable |-> TRUE,
                               data |-> model_dump(state, fb)]]]
    ELSE [ok |-> FALSE, store |-> [store EXCEPT ![s] = NoFile]]

\* FileStorage.save_session: the value returned (ok) and the files
\* afterwards; every exception is caught and turned into False
save_session(store, s, state, fb, fault) ==
    CASE fault = "none" ->
           [ok |-> TRUE,
            store |-> [store EXCEPT
                         ![s] = [exists |-> TRUE, readable |-> TRUE,
                                 data |-> model_dump(state, fb)]]]
      [] fault = "open" -> [ok |-> FALSE, store |-> store]
      [] fault = "write" ->
           [ok |-> FALSE, store |-> [store EXCEPT ![s] = Truncated]]

\* FileStorage.load_session: None when there is no file, when json.load
\* raises or when the validation raises
load_session(store, s) ==
    IF ~store[s].exists \/ ~store[s].readable \/ ~IsValidData(store[s].data)
    THEN NoSession
    ELSE SessionData(store[s].data)

\* FileStorage.list_sessions: the ids of the files session_*.json
list_sessions(store) == {s \in Sessions : store[s].exists}

NoResult == [action |-> "none", message |-> "", question_category |-> ""]

RECURSIVE FindCategory(_, _, _)
\* interviewer_agent.py 207-211: position of the first record of the
\* category at or after position i, 0 if there is none
FindCategory(answers, category, i) ==
    IF i > Len(answers) THEN 0
    ELSE IF answers[i].question_category = category THEN i
    ELSE FindCategory(answers, category, i + 1)

\* mutant: the new text takes the place of the old one
MergeText_Replace(old, new) == new

\* mutant: the texts are joined without the space
MergeText_NoSpace(old, new) == Concat(old, new)

\* interviewer_agent.py 215
MergeText(old, new) == Concat(old, Concat(Run(" ", 1), new))

\* mutant: a fragment for an existing record is merged into the first record
get_or_create_answer_First(answers, question, new_answer_text) ==
    LET i == FindCategory(answers, question.category, 1)
    IN  IF i # 0
        THEN [answers EXCEPT
                ![1].answer_text =
                  Concat(@, Concat(Run(" ", 1), new_answer_text))]
        ELSE Append(answers,
                    [question_category |-> question.category,
                     question_text |-> question.question_text,
                     answer_text |-> new_answer_text,
                     follow_up_count |-> 0,
                     is_complete |-> "False"])

\* mutant: a new record is appended twice
get_or_create_answer_Double(answers, question, new_answer_text) ==
    LET i == FindCategory(answers, question.category, 1)
        record == [question_category |-> question.category,
                   question_text |-> question.question_text,
                   answer_text |-> new_answer_text,
                   follow_up_count |-> 0,
                   is_complete |-> "False"]
    IN  IF i # 0
        THEN [answers EXCEPT
                ![i].answer_text =
                  Concat(@, Concat(Run(" ", 1), new_answer_text))]
        ELSE Append(Append(answers, record), record)

\* mutant: the search never finds the record, a new one is always appended
get_or_create_answer_AlwaysAppend(answers, question, new_answer_text) ==
    Append(answers,
           [question_category |-> question.category,
            question_text |-> question.question_text,
            answer_text |-> new_answer_text,
            follow_up_count |-> 0,
            is_complete |-> "False"])

\* mutant: a new record is put at the front of the list
get_or_create_answer_Prepend(answers, question, new_answer_text) ==
    LET i == FindCategory(answers, question.category, 1)
    IN  IF i # 0
        THEN [answers EXCEPT
                ![i].answer_text =
                  Concat(@, Concat(Run(" ", 1), new_answer_text))]
        ELSE << [question_category |-> question.category,
                 question_text |-> question.question_text,
                 answer_text |-> new_answer_text,
                 follow_up_count |-> 0,
                 is_complete |-> "False"] >> \o answers

\* InterviewerAgent._get_or_create_answer: the answers list afterwards
get_or_create_answer(answers, question, new_answer_text) ==
    LET i == FindCategory(answers, question.category, 1)
    IN  IF i # 0
        THEN [answers EXCEPT ![i].answer_text = MergeText(@, new_answer_text)]
        ELSE Append(answers,
                    [question_category |-> question.category,
                     question_text |-> question.question_text,
                     answer_text |-> new_answer_text,
                     follow_up_count |-> 0,
                     is_complete |-> "False"])

\* position in answers of the record _get_or_create_answer returns
ExistingAnswer(answers, question) == FindCategory(answers, question.category, 1)

(***************************************************************************)
(* The completeness oracle.  What the language model call does: "raise"    *)
(* (ainvoke raises), "unparsable" (the content is no JSON), "nondict" (the *)
(* content is JSON but no object) or "dict" (a JSON object; is_complete is *)
(* "true", "false", "null" or "missing", follow_up is a text, "" or        *)
(* "missing").                                                             *)
(***************************************************************************)
Llm(k, c, f) == [k |-> k, is_complete |-> c, follow_up |-> f]

LlmOutcomes ==
    { Llm("raise", "missing", "missing"),
      Llm("unparsable", "missing", "missing"),
      Llm("nondict", "missing", "missing") }
    \cup { Llm("dict", "true", ""), Llm("dict", "missing", "missing") }
    \cup { Llm("dict", "false", f) : f \in {"FOLLOW_UP_TEXT", "", "missing"} }
    \cup { Llm("dict", "null", "FOLLOW_UP_TEXT") }

NoLlm == Llm("none", "missing", "missing")

\* gemini_service.py 97-101
FailOpen == Llm("dict", "true", "")

\* GeminiService.validate_answer_completeness: the value returned
validate_answer_completeness(o) ==
    IF o.k \in {"raise", "unparsable"} THEN FailOpen ELSE o

DEFAULT_FOLLOW_UP == "Could you tell me more about that?"

\* interviewer_agent.py 153: validation.get("is_complete", True), the value
\* assigned to the record's is_complete ("True", "False" or "None": the
\* model has no validate_assignment, so the value is stored as it is)
GetIsComplete(validation) ==
    CASE validation.is_complete = "missing" -> "True"
      [] validation.is_complete = "true" -> "True"
      [] validation.is_complete = "false" -> "False"
      [] validation.is_complete = "null" -> "None"

\* Python truth value of an is_complete value
IsTrue(v) == v = "True"

\* interviewer_agent.py 179: validation.get("follow_up", default)
GetFollowUp(validation) ==
    IF validation.follow_up = "missing" THEN DEFAULT_FOLLOW_UP
    ELSE validation.follow_up

\* mutant: only the ceiling moves to the next question
ShouldAdvance_CeilingOnly(record) ==
    record.follow_up_count >= max_follow_ups

\* mutant: the ceiling is compared with > instead of >=
ShouldAdvance_Strict(record) ==
    IsTrue(record.is_complete) \/ record.follow_up_count > max_follow_ups

\* interviewer_agent.py 156: the condition to move to the next question
ShouldAdvance(record) ==
    IsTrue(record.is_complete) \/ record.follow_up_count >= max_follow_ups

\* mutant: the index is moved twice
Advance_Skip(state) ==
    LET moved == [state EXCEPT !.current_question_index = @ + 2]
        next_question == get_current_question(moved)
    IN  IF next_question # NoQuestion
        THEN [state |-> moved,
              result |-> [action |-> "next_question",
                          message |-> next_question.question_text,
                          question_category |-> next_question.category]]
        ELSE [state |-> [moved EXCEPT !.is_completed = TRUE],
              result |-> [action |-> "complete",
                          message |-> "THANKS_PREPARING_FEEDBACK",
                          question_category |-> ""]]

\* mutant: the result carries the question that was just left
Advance_StaleQuestion(state) ==
    LET moved == [state EXCEPT !.current_question_index = @ + 1]
        next_question == get_current_question(moved)
        left_question == get_current_question(state)
    IN  IF next_question # NoQuestion
        THEN [state |-> moved,
              result |-> [action |-> "next_question",
                          message |-> left_question.question_text,
                          question_category |-> left_question.category]]
        ELSE [state |-> [moved EXCEPT !.is_completed = TRUE],
              result |-> [action |-> "complete",
                          message |-> "THANKS_PREPARING_FEEDBACK",
                          question_category |-> ""]]

\* mutant: every advance sets is_completed
Advance_EarlyFlag(state) ==
    LET moved == [state EXCEPT !.current_question_index = @ + 1,
                               !.is_completed = TRUE]
        next_question == get_current_question(moved)
    IN  IF next_question # NoQuestion
        THEN [state |-> moved,
              result |-> [action |-> "next_question",
                          message |-> next_question.question_text,
                          question_category |-> next_question.category]]
        ELSE [state |-> moved,
              result |-> [action |-> "complete",
                          message |-> "THANKS_PREPARING_FEEDBACK",
                          question_category |-> ""]]

\* mutant: the end of the catalog does not set is_completed
Advance_NoFlag(state) ==
    LET moved == [state EXCEPT !.current_question_index = @ + 1]
        next_question == get_current_question(moved)
    IN  IF next_question # NoQuestion
        THEN [state |-> moved,
              result |-> [action |-> "next_question",
                          message |-> next_question.question_text,
                          question_category |-> next_question.category]]
        ELSE [state |-> moved,
              result |-> [action |-> "complete",
                          message |-> "THANKS_PREPARING_FEEDBACK",
                          question_category |-> ""]]

\* interviewer_agent.py 161-175: the state and the result of an advance
Advance(state) ==
    LET moved == [state EXCEPT !.current_question_index = @ + 1]
        next_question == get_current_question(moved)
    IN  IF next_question # NoQuestion
        THEN [state |-> moved,
              result |-> [action |-> "next_question",
                          message |-> next_question.question_text,
                          question_category |-> next_question.category]]
        ELSE [state |-> [moved EXCEPT !.is_completed = TRUE],
              result |-> [action |-> "complete",
                          message |-> "THANKS_PREPARING_FEEDBACK",
                          question_category |-> ""]]

\* mutant: the index is moved although there is no question
NoQuestionResult_Advance(state) ==
    [state |-> [state EXCEPT !.current_question_index = @ + 1],
     result |-> [action |-> "complete",
                 message |-> "THANKS",
                 question_category |-> ""]]

\* interviewer_agent.py 135-140: the state and the result when there is no
\* current question
NoQuestionResult(state) ==
    [state |-> state,
     result |-> [action |-> "complete",
                 message |-> "THANKS",
                 question_category |-> ""]]

\* mutant: a record left through the ceiling is marked complete
validate_and_respond_MarkForced(state, validation) ==
    LET current_question == get_current_question(state)
        i == ExistingAnswer(state.answers, current_question)
        judged == [state EXCEPT
                     !.answers[i].is_complete = GetIsComplete(validation)]
    IN  IF ShouldAdvance(judged.answers[i])
        THEN Advance([judged EXCEPT !.answers[i].is_complete = "True"])
        ELSE [state |-> [judged EXCEPT !.answers[i].follow_up_count = @ + 1],
              result |-> [action |-> "follow_up",
                          message |-> GetFollowUp(validation),
                          question_category |-> current_question.category]]

\* mutant: the follow-up carries no category
validate_and_respond_Untagged(state, validation) ==
    LET current_question == get_current_question(state)
        i == ExistingAnswer(state.answers, current_question)
        judged == [state EXCEPT
                     !.answers[i].is_complete = GetIsComplete(validation)]
    IN  IF ShouldAdvance(judged.answers[i])
        THEN Advance(judged)
        ELSE [state |-> [judged EXCEPT !.answers[i].follow_up_count = @ + 1],
              result |-> [action |-> "follow_up",
                          message |-> GetFollowUp(validation),
                          question_category |-> ""]]

\* mutant: a follow-up is not counted
validate_and_respond_NoCount(state, validation) ==
    LET current_question == get_current_question(state)
        i == ExistingAnswer(state.answers, current_question)
        judged == [state EXCEPT
                     !.answers[i].is_complete = GetIsComplete(validation)]
    IN  IF ShouldAdvance(judged.answers[i])
        THEN Advance(judged)
        ELSE [state |-> judged,
              result |-> [action |-> "follow_up",
                          message |-> GetFollowUp(validation),
                          question_category |-> current_question.category]]

\* InterviewerAgent.validate_and_respond from line 152 on, for a validation
\* that is a dict: the state afterwards and the result returned
validate_and_respond(state, validation) ==
    LET current_question == get_current_question(state)
        i == ExistingAnswer(state.answers, current_question)
        judged == [state EXCEPT
                     !.answers[i].is_complete = GetIsComplete(validation)]
    IN  IF ShouldAdvance(judged.answers[i])
        THEN Advance(judged)
        ELSE [state |-> [judged EXCEPT !.answers[i].follow_up_count = @ + 1],
              result |-> [action |-> "follow_up",
                          message |-> GetFollowUp(validation),
                          question_category |-> current_question.category]]

(***************************************************************************)
(* State.                                                                  *)
(***************************************************************************)
VARIABLES
    pc,               \* where each session's handler stands
    interview_state,  \* the InterviewState object of each handler
    active_sessions,  \* keys of the active_sessions dict
    files,            \* the session file of each id in the data directory
    feedback,         \* session_data.feedback of each handler
    inbox,            \* number of inbound frames not yet read, per socket
    outgoing,         \* the message the handler is about to send
    last_sent,        \* the type of the last message sent on each socket
    result,           \* the result of validate_and_respond, until acted on
    oracle_calls,     \* calls of validate_answer_completeness, per session
    oracle_arg,       \* the answer passed to the last such call
    feedback_calls,   \* calls of generate_feedback, per session
    feedback_arg,     \* the answers passed to the last such call
    answer_text,      \* the handler's answer_text in the current turn
    llm,              \* what the oracle's model call did in the current turn
    budget,           \* what is left of the bounds of the run
    may_connect,      \* the clients that connect in this run
    save_calls,       \* calls of save_session, per session
    save_result,      \* what the last call of save_session returned
    graph,            \* the InterviewGraphState of a run of the graph
    feedback_llm,     \* what the model call of generate_feedback did
    all_complete      \* history: every verdict of the session was "complete"

vars ==
    << pc, interview_state, active_sessions, files, feedback, inbox, outgoing,
       last_sent, result, oracle_calls, oracle_arg, feedback_calls,
       feedback_arg, budget, may_connect, save_calls, save_result, graph, feedback_llm, all_complete,
                    answer_text, llm >>

\* mutant: a write that fails is made again
Save_Retry(s, state, fb, left) ==
    \E fault \in StorageFaults :
        LET saved == save_session(files, s, state, fb, fault)
        IN  /\ fault = "none" \/ left.faults > 0
            /\ files' = saved.store
            /\ save_calls' = [save_calls EXCEPT
                                ![s] = IF saved.ok THEN @ + 1 ELSE @ + 2]
            /\ save_result' = [save_result EXCEPT
                                 ![s] = IF saved.ok THEN "True" ELSE "False"]
            /\ budget' = IF fault = "none" THEN left
                         ELSE [left EXCEPT !.faults = @ - 1]

\* main.py 144, 229 and 281: save_session is awaited and the value it
\* returns is dropped; left is the budget the step leaves
Save(s, state, fb, left) ==
    \E fault \in StorageFaults :
        LET saved == save_session(files, s, state, fb, fault)
        IN  /\ fault = "none" \/ left.faults > 0
            /\ files' = saved.store
            /\ save_calls' = [save_calls EXCEPT ![s] = @ + 1]
            /\ save_result' = [save_result EXCEPT
                                 ![s] = IF saved.ok THEN "True" ELSE "False"]
            /\ budget' = IF fault = "none" THEN left
                         ELSE [left EXCEPT !.faults = @ - 1]

\* the graph of interview_graph.py is not built by the handler
NoGraph ==
    [node |-> "none", current_question_index |-> 0, is_completed |-> FALSE,
     next_action |-> "missing", routed |-> "none"]

InitHandlers ==
    /\ pc = [s \in Sessions |-> "idle"]
    /\ interview_state = [s \in Sessions |-> NewState]
    /\ active_sessions = {}
    /\ files = [s \in Sessions |-> NoFile]
    /\ feedback = [s \in Sessions |-> "None"]
    /\ inbox = [s \in Sessions |-> 0]
    /\ outgoing = [s \in Sessions |-> NoMsg]
    /\ last_sent = [s \in Sessions |-> "none"]
    /\ result = [s \in Sessions |-> NoResult]
    /\ oracle_calls = [s \in Sessions |-> 0]
    /\ oracle_arg = [s \in Sessions |-> EmptyStr]
    /\ feedback_calls = [s \in Sessions |-> 0]
    /\ feedback_arg = [s \in Sessions |-> <<>>]
    /\ answer_text = [s \in Sessions |-> NoAnswer]
    /\ llm = [s \in Sessions |-> NoLlm]
    /\ feedback_llm = [s \in Sessions |-> "none"]
    /\ save_calls = [s \in Sessions |-> 0]
    /\ save_result = [s \in Sessions |-> "none"]
    /\ all_complete = [s \in Sessions |-> TRUE]

\* no run of the graph
InitCommon ==
    /\ InitHandlers
    /\ graph = NoGraph

Init ==
    /\ InitCommon
    /\ budget = [probes |-> MaxProbes, varied |-> TRUE, faults |-> 0]
    /\ may_connect = {"s1"}

\* the run of the longest session: one wording per answer, and an oracle
\* that finds no answer complete as long as the budget allows a follow-up
InitWorst ==
    /\ InitCommon
    /\ budget = [probes |-> MaxWorstProbes, varied |-> FALSE, faults |-> 0]
    /\ may_connect = {"s1"}

\* two clients connect; one wording per answer
InitPair ==
    /\ InitCommon
    /\ budget = [probes |-> MaxPairProbes, varied |-> FALSE, faults |-> 0]
    /\ may_connect = Sessions

\* one client; writes and calls of the model may fail
InitFaulty ==
    /\ InitCommon
    /\ budget = [probes |-> MaxFaultyProbes, varied |-> FALSE,
                 faults |-> MaxFaults]
    /\ may_connect = {"s1"}

(***************************************************************************)
(* The handler interview_websocket, block by block, and its client.        *)
(***************************************************************************)

\* main.py 122-153: accept, create and register the state, save it, and
\* come to the send of the session-start message
Connect(s) ==
    /\ pc[s] = "idle"
    /\ s \in may_connect
    /\ interview_state' = [interview_state EXCEPT ![s] = NewState]
    /\ active_sessions' = active_sessions \cup {s}
    /\ feedback' = [feedback EXCEPT ![s] = "None"]
    /\ Save(s, NewState, "None", budget)
    /\ outgoing' = [outgoing EXCEPT
                      ![s] = Msg("session_start", "SESSION_ID", "", FALSE)]
    /\ pc' = [pc EXCEPT ![s] = "start"]
    /\ UNCHANGED << inbox, last_sent, result, oracle_calls, oracle_arg,
                    feedback_calls, feedback_arg, may_connect, graph,
                    feedback_llm, all_complete, answer_text, llm >>

\* main.py 153-163: session-start is sent; next the greeting
SendSessionStart(s) ==
    /\ pc[s] = "start"
    /\ last_sent' = [last_sent EXCEPT ![s] = outgoing[s].type]
    /\ outgoing' = [outgoing EXCEPT
                      ![s] = Msg("question", "GREETING", "", FALSE)]
    /\ pc' = [pc EXCEPT ![s] = "greet"]
    /\ UNCHANGED << interview_state, active_sessions, files, feedback, inbox,
                    result, oracle_calls, oracle_arg, feedback_calls,
                    feedback_arg, budget, may_connect, save_calls, save_result, graph, feedback_llm, all_complete,
                    answer_text, llm >>

\* mutant: the loop is entered right after the greeting
SendGreeting_NoQuestion(s) ==
    /\ pc[s] = "greet"
    /\ last_sent' = [last_sent EXCEPT ![s] = outgoing[s].type]
    /\ outgoing' = [outgoing EXCEPT ![s] = NoMsg]
    /\ pc' = [pc EXCEPT ![s] = "recv"]
    /\ UNCHANGED << interview_state, active_sessions, files, feedback, inbox,
                    result, oracle_calls, oracle_arg, feedback_calls,
                    feedback_arg, budget, may_connect, save_calls, save_result, graph, feedback_llm,
                    all_complete, answer_text, llm >>

\* main.py 163-177: the greeting is sent; next the first question, if any
SendGreeting(s) ==
    /\ pc[s] = "greet"
    /\ last_sent' = [last_sent EXCEPT ![s] = outgoing[s].type]
    /\ LET first_question == get_current_question(interview_state[s])
       IN  IF first_question # NoQuestion
           THEN /\ outgoing' = [outgoing EXCEPT
                                  ![s] = Msg("question",
                                             first_question.question_text,
                                             first_question.category, FALSE)]
                /\ pc' = [pc EXCEPT ![s] = "first"]
           ELSE /\ outgoing' = [outgoing EXCEPT ![s] = NoMsg]
                /\ pc' = [pc EXCEPT ![s] = "recv"]
    /\ UNCHANGED << interview_state, active_sessions, files, feedback, inbox,
                    result, oracle_calls, oracle_arg, feedback_calls,
                    feedback_arg, budget, may_connect, save_calls, save_result, graph, feedback_llm, all_complete,
                    answer_text, llm >>

\* main.py 177-182: the first question is sent; the loop waits for a frame
SendFirstQuestion(s) ==
    /\ pc[s] = "first"
    /\ last_sent' = [last_sent EXCEPT ![s] = outgoing[s].type]
    /\ outgoing' = [outgoing EXCEPT ![s] = NoMsg]
    /\ pc' = [pc EXCEPT ![s] = "recv"]
    /\ UNCHANGED << interview_state, active_sessions, files, feedback, inbox,
                    result, oracle_calls, oracle_arg, feedback_calls,
                    feedback_arg, budget, may_connect, save_calls, save_result, graph, feedback_llm, all_complete,
                    answer_text, llm >>

\* the client sends a frame; what it holds is settled when it is read
ClientSend(s) ==
    /\ pc[s] \notin {"idle", "disconnected"}
    /\ inbox[s] < MaxInbox
    /\ inbox' = [inbox EXCEPT ![s] = @ + 1]
    /\ UNCHANGED << pc, interview_state, active_sessions, files, feedback,
                    outgoing, last_sent, result, oracle_calls, oracle_arg,
                    feedback_calls, feedback_arg, budget, may_connect, save_calls, save_result, graph, feedback_llm, all_complete,
                    answer_text, llm >>

\* main.py 309-319: an exception reaches the handler's except clause
Raise(s) ==
    /\ outgoing' = [outgoing EXCEPT
                      ![s] = Msg("error", "AN_ERROR_OCCURRED", "", FALSE)]
    /\ pc' = [pc EXCEPT ![s] = "crash"]

\* mutant: the state is saved as it was before the turn
AfterValidate_SaveStale(s, r, left) ==
    /\ interview_state' = [interview_state EXCEPT ![s] = r.state]
    /\ result' = [result EXCEPT ![s] = r.result]
    /\ active_sessions' = active_sessions \cup {s}
    /\ Save(s, ParseState(files[s].data.state), feedback[s], left)
    /\ IF r.result.action = "complete"
       THEN /\ outgoing' = [outgoing EXCEPT
                              ![s] = Msg("status", "GENERATING_FEEDBACK", "",
                                         FALSE)]
            /\ pc' = [pc EXCEPT ![s] = "status"]
       ELSE /\ outgoing' = [outgoing EXCEPT
                              ![s] = Msg("question", r.result.message,
                                         r.result.question_category,
                                         r.result.action = "follow_up")]
            /\ pc' = [pc EXCEPT ![s] = "reply"]

\* main.py 220-229 and the branch on action: the state is registered and
\* saved, and the handler comes to its next send
AfterValidate(s, r, left) ==
    /\ interview_state' = [interview_state EXCEPT ![s] = r.state]
    /\ result' = [result EXCEPT ![s] = r.result]
    /\ active_sessions' = active_sessions \cup {s}
    /\ Save(s, r.state, feedback[s], left)
    /\ IF r.result.action = "complete"
       THEN /\ outgoing' = [outgoing EXCEPT
                              ![s] = Msg("status", "GENERATING_FEEDBACK", "",
                                         FALSE)]
            /\ pc' = [pc EXCEPT ![s] = "status"]
       ELSE /\ outgoing' = [outgoing EXCEPT
                              ![s] = Msg("question", r.result.message,
                                         r.result.question_category,
                                         r.result.action = "follow_up")]
            /\ pc' = [pc EXCEPT ![s] = "reply"]

\* the wordings the client uses for an answer to the current question
Wordings(answers, question) ==
    IF ExistingAnswer(answers, question) = 0 THEN InitialWordings
    ELSE FollowUpWordings

\* mutant: the next frame is read while the reply is still to be sent
ReadyToReceive_Eager(s) == pc[s] \in {"recv", "reply"}

\* main.py 180-182: the handler awaits receive_text at the top of its loop
\* and nowhere else
ReadyToReceive(s) == pc[s] = "recv"

\* main.py 182-218 and interviewer_agent.py 133-150: a frame is read and
\* checked; an accepted answer is merged and handed to the oracle
Receive(s) ==
    /\ ReadyToReceive(s)
    /\ inbox[s] > 0
    /\ inbox' = [inbox EXCEPT ![s] = @ - 1]
    /\ \E f \in Frames :
         /\ budget.varied \/ f \in PlainFrames
         /\ answer_text' = [answer_text EXCEPT ![s] = AnswerTextOf(f)]
         /\ LET class == Classify(f)
                text == AnswerTextOf(f).v
                state == interview_state[s]
                current_question == get_current_question(state)
            IN  CASE class \in {"decode_error", "attribute_error"} ->
                       /\ Raise(s)
                       /\ UNCHANGED << interview_state, active_sessions, files,
                                       result, oracle_calls, oracle_arg, budget,
                                       save_calls, save_result >>
                  [] class = "empty" ->
                       /\ outgoing' = [outgoing EXCEPT
                                         ![s] = Msg("error", "REPEAT_ANSWER", "",
                                                    FALSE)]
                       /\ pc' = [pc EXCEPT ![s] = "reject"]
                       /\ UNCHANGED << interview_state, active_sessions, files,
                                       result, oracle_calls, oracle_arg, budget,
                                       save_calls, save_result >>
                  [] class = "too_long" ->
                       /\ outgoing' = [outgoing EXCEPT
                                         ![s] = Msg("error", "TOO_LONG", "",
                                                    FALSE)]
                       /\ pc' = [pc EXCEPT ![s] = "reject"]
                       /\ UNCHANGED << interview_state, active_sessions, files,
                                       result, oracle_calls, oracle_arg, budget,
                                       save_calls, save_result >>
                  [] class = "accepted" /\ current_question = NoQuestion ->
                       /\ AfterValidate(s, NoQuestionResult(state), budget)
                       /\ UNCHANGED << oracle_calls, oracle_arg >>
                  [] class = "accepted" /\ current_question # NoQuestion ->
                       LET merged == get_or_create_answer(state.answers,
                                                          current_question,
                                                          text)
                           i == ExistingAnswer(merged, current_question)
                       IN  /\ text \in Wordings(state.answers,
                                                       current_question)
                           /\ budget.varied \/ text \in {TextA, TextB}
                           /\ interview_state' =
                                [interview_state EXCEPT ![s].answers = merged]
                           /\ oracle_calls' = [oracle_calls EXCEPT ![s] = @ + 1]
                           /\ oracle_arg' =
                                [oracle_arg EXCEPT ![s] = merged[i].answer_text]
                           /\ outgoing' = [outgoing EXCEPT ![s] = NoMsg]
                           /\ pc' = [pc EXCEPT ![s] = "oracle"]
                           /\ UNCHANGED << active_sessions, files, result,
                                           budget, save_calls, save_result >>
    /\ UNCHANGED << feedback, last_sent, feedback_calls, feedback_arg,
                    may_connect, graph, feedback_llm, all_complete, llm >>

\* main.py 201-202 and 212-213: the error message for a rejected answer is
\* sent, and the loop continues
SendRejection(s) ==
    /\ pc[s] = "reject"
    /\ last_sent' = [last_sent EXCEPT ![s] = outgoing[s].type]
    /\ outgoing' = [outgoing EXCEPT ![s] = NoMsg]
    /\ pc' = [pc EXCEPT ![s] = "recv"]
    /\ answer_text' = [answer_text EXCEPT ![s] = NoAnswer]
    /\ llm' = [llm EXCEPT ![s] = NoLlm]
    /\ UNCHANGED << interview_state, active_sessions, files, feedback, inbox,
                    result, oracle_calls, oracle_arg, feedback_calls,
                    feedback_arg, budget, may_connect, save_calls, save_result, graph, feedback_llm, all_complete >>

\* mutant: the registry is cleared when a client disconnects
Disconnect_Clear(s) ==
    /\ pc[s] = "recv"
    /\ inbox[s] = 0
    /\ active_sessions' = {}
    /\ pc' = [pc EXCEPT ![s] = "disconnected"]
    /\ UNCHANGED << interview_state, files, feedback, inbox, outgoing,
                    last_sent, result, oracle_calls, oracle_arg,
                    feedback_calls, feedback_arg, budget, may_connect,
                    save_calls, save_result, graph, feedback_llm,
                    all_complete, answer_text, llm >>

\* main.py 304-307 and 321-324: receive_text raises WebSocketDisconnect
Disconnect(s) ==
    /\ pc[s] = "recv"
    /\ inbox[s] = 0
    /\ active_sessions' = active_sessions \ {s}
    /\ pc' = [pc EXCEPT ![s] = "disconnected"]
    /\ UNCHANGED << interview_state, files, feedback, inbox, outgoing,
                    last_sent, result, oracle_calls, oracle_arg,
                    feedback_calls, feedback_arg, budget, may_connect, save_calls, save_result, graph, feedback_llm, all_complete,
                    answer_text, llm >>

\* the verdict is "incomplete" for a record that is under the follow-up
\* ceiling
CausesFollowUp(state, validation) ==
    /\ validation.k = "dict"
    /\ ~IsTrue(GetIsComplete(validation))
    /\ LET i == ExistingAnswer(state.answers, get_current_question(state))
       IN  state.answers[i].follow_up_count < max_follow_ups

\* the budget left after a verdict
SpendProbe(state, validation) ==
    IF CausesFollowUp(state, validation)
    THEN [budget EXCEPT !.probes = @ - 1]
    ELSE budget

\* the budget left after a call of the model that raised, in a run that
\* bounds the failures
SpendFault(o, left) ==
    IF ~left.varied /\ o.k = "raise"
    THEN [left EXCEPT !.faults = @ - 1]
    ELSE left

\* gemini_service.py 30-34 and 77: the model client is built without a
\* timeout and ainvoke is awaited without one, so a call that gets no
\* response never ends
OracleStall(s) ==
    /\ pc[s] = "oracle"
    /\ llm[s] = NoLlm
    /\ llm' = [llm EXCEPT ![s] = Llm("hang", "missing", "missing")]
    /\ UNCHANGED << pc, interview_state, active_sessions, files, feedback,
                    inbox, outgoing, last_sent, result, oracle_calls,
                    oracle_arg, feedback_calls, feedback_arg, budget,
                    may_connect, save_calls, save_result, graph, feedback_llm, all_complete, answer_text >>

\* gemini_service.py 76-101, interviewer_agent.py 152-186, main.py 220-229:
\* the oracle call ends, the turn is decided and the state is saved
OracleReturn(s) ==
    /\ pc[s] = "oracle"
    /\ llm[s] = NoLlm
    /\ \E o \in LlmOutcomes :
         LET validation == validate_answer_completeness(o)
         IN  /\ llm' = [llm EXCEPT ![s] = o]
             /\ \/ budget.varied
                \/ o = Llm("dict", "false", "FOLLOW_UP_TEXT")
                \/ budget.probes = 0 /\ o = Llm("dict", "true", "")
                \/ budget.faults > 0 /\ o.k = "raise"
             /\ all_complete' =
                  [all_complete EXCEPT
                     ![s] = @ /\ (validation.k = "dict"
                                    => IsTrue(GetIsComplete(validation)))]
             /\ CausesFollowUp(interview_state[s], validation)
                  => budget.probes > 0
             /\ IF validation.k # "dict"
                THEN \* line 153: validation has no attribute get
                     /\ Raise(s)
                     /\ UNCHANGED << interview_state, active_sessions, files,
                                     result, budget, save_calls, save_result >>
                ELSE AfterValidate(s,
                       validate_and_respond(interview_state[s], validation),
                       SpendFault(o, SpendProbe(interview_state[s],
                                                validation)))
    /\ UNCHANGED << feedback, inbox, last_sent, oracle_calls, oracle_arg,
                    feedback_calls, feedback_arg, may_connect, graph,
                    feedback_llm, answer_text >>

\* main.py 242 and 256: the next question or the follow-up is sent
SendReply(s) ==
    /\ pc[s] = "reply"
    /\ last_sent' = [last_sent EXCEPT ![s] = outgoing[s].type]
    /\ outgoing' = [outgoing EXCEPT ![s] = NoMsg]
    /\ result' = [result EXCEPT ![s] = NoResult]
    /\ pc' = [pc EXCEPT ![s] = "recv"]
    /\ answer_text' = [answer_text EXCEPT ![s] = NoAnswer]
    /\ llm' = [llm EXCEPT ![s] = NoLlm]
    /\ UNCHANGED << interview_state, active_sessions, files, feedback, inbox,
                    oracle_calls, oracle_arg, feedback_calls, feedback_arg,
                    budget, may_connect, save_calls, save_result, graph, feedback_llm, all_complete >>

\* main.py 268-274: the status message is sent and generate_feedback is
\* called with the answers
SendStatus(s) ==
    /\ pc[s] = "status"
    /\ last_sent' = [last_sent EXCEPT ![s] = outgoing[s].type]
    /\ outgoing' = [outgoing EXCEPT ![s] = NoMsg]
    /\ feedback_calls' = [feedback_calls EXCEPT ![s] = @ + 1]
    /\ feedback_arg' = [feedback_arg EXCEPT ![s] = interview_state[s].answers]
    /\ result' = [result EXCEPT ![s] = NoResult]
    /\ pc' = [pc EXCEPT ![s] = "feedback"]
    /\ answer_text' = [answer_text EXCEPT ![s] = NoAnswer]
    /\ llm' = [llm EXCEPT ![s] = NoLlm]
    /\ UNCHANGED << interview_state, active_sessions, files, feedback, inbox,
                    oracle_calls, oracle_arg, budget, may_connect, save_calls, save_result, graph, feedback_llm, all_complete >>

\* what generate_feedback returns: the compiled feedback, or the fallback
FeedbackOutcomes == {"compiled", "fallback"}

\* mutant: the completion time is not set
Completed_NoStamp(state) == [state EXCEPT !.is_completed = TRUE]

\* main.py 276-281: the state is completed
Completed(state) ==
    [state EXCEPT !.is_completed = TRUE, !.completed_at = "now"]

\* what the model call of generate_feedback does: "raise" (ainvoke raises;
\* generate_chat_response then returns its apology text, which is no JSON),
\* "unparsable" (the response is no JSON), "nondict" (JSON but no object),
\* "wrong_shape" (an object whose fields InterviewFeedback refuses) or "ok"
FeedbackLlmOutcomes == {"raise", "unparsable", "nondict", "wrong_shape", "ok"}

\* mutant: only the parse of the response is guarded
generate_feedback_ParseOnly(o) ==
    IF o = "ok" THEN "compiled"
    ELSE IF o \in {"nondict", "wrong_shape"} THEN "raise"
    ELSE "fallback"

\* FeedbackService.generate_feedback: the value returned ("raise" would be
\* an exception leaving it)
generate_feedback(o) == IF o = "ok" THEN "compiled" ELSE "fallback"

\* main.py 271-290: generate_feedback returns; the state is completed and
\* saved with the feedback
FeedbackReturn(s) ==
    /\ pc[s] = "feedback"
    /\ \E o \in FeedbackLlmOutcomes :
         LET fb == generate_feedback(o)
         IN  /\ feedback_llm' = [feedback_llm EXCEPT ![s] = o]
             /\ IF fb \in FeedbackOutcomes
                THEN /\ feedback' = [feedback EXCEPT ![s] = fb]
                     /\ interview_state' =
                          [interview_state EXCEPT ![s] = Completed(@)]
                     /\ Save(s, Completed(interview_state[s]), fb, budget)
                     /\ outgoing' = [outgoing EXCEPT
                                       ![s] = Msg("feedback", fb, "", FALSE)]
                     /\ pc' = [pc EXCEPT ![s] = "send_feedback"]
                ELSE /\ Raise(s)
                     /\ UNCHANGED << feedback, interview_state, files,
                                     budget, save_calls, save_result >>
    /\ UNCHANGED << active_sessions, inbox, last_sent, result, oracle_calls,
                    oracle_arg, feedback_calls, feedback_arg, may_connect,
                    graph, all_complete, answer_text, llm >>

\* mutant: the session-end message is sent before the feedback
SendFeedback_EndFirst(s) ==
    /\ pc[s] = "send_feedback"
    /\ last_sent' = [last_sent EXCEPT ![s] = "session_end"]
    /\ outgoing' = [outgoing EXCEPT ![s] = outgoing[s]]
    /\ pc' = [pc EXCEPT ![s] = "send_end"]
    /\ UNCHANGED << interview_state, active_sessions, files, feedback, inbox,
                    result, oracle_calls, oracle_arg, feedback_calls,
                    feedback_arg, budget, may_connect, save_calls,
                    save_result, graph, feedback_llm, all_complete,
                    answer_text, llm >>

\* main.py 291-298: the feedback is sent; next the session-end message
SendFeedback(s) ==
    /\ pc[s] = "send_feedback"
    /\ last_sent' = [last_sent EXCEPT ![s] = outgoing[s].type]
    /\ outgoing' = [outgoing EXCEPT
                      ![s] = Msg("session_end", "COMPLETED", "", FALSE)]
    /\ pc' = [pc EXCEPT ![s] = "send_end"]
    /\ UNCHANGED << interview_state, active_sessions, files, feedback, inbox,
                    result, oracle_calls, oracle_arg, feedback_calls,
                    feedback_arg, budget, may_connect, save_calls, save_result, graph, feedback_llm, all_complete,
                    answer_text, llm >>

\* mutant: the loop is not left after the session-end message
AfterSessionEnd_Loop == "recv"

\* main.py 302: where the handler goes after the session-end message
AfterSessionEnd == "done"

\* main.py 299-302 and 321-324: session-end is sent, the loop is left and
\* the session is unregistered
SendSessionEnd(s) ==
    /\ pc[s] = "send_end"
    /\ last_sent' = [last_sent EXCEPT ![s] = outgoing[s].type]
    /\ outgoing' = [outgoing EXCEPT ![s] = NoMsg]
    /\ pc' = [pc EXCEPT ![s] = AfterSessionEnd]
    /\ active_sessions' =
         IF AfterSessionEnd = "done" THEN active_sessions \ {s}
         ELSE active_sessions
    /\ UNCHANGED << interview_state, files, feedback, inbox, result,
                    oracle_calls, oracle_arg, feedback_calls, feedback_arg,
                    budget, may_connect, save_calls, save_result, graph, feedback_llm, all_complete,
                    answer_text, llm >>

\* main.py 309-324: the error message of the except clause is sent and the
\* session is unregistered
SendCrashError(s) ==
    /\ pc[s] = "crash"
    /\ last_sent' = [last_sent EXCEPT ![s] = outgoing[s].type]
    /\ outgoing' = [outgoing EXCEPT ![s] = NoMsg]
    /\ active_sessions' = active_sessions \ {s}
    /\ pc' = [pc EXCEPT ![s] = "crashed"]
    /\ UNCHANGED << interview_state, files, feedback, inbox, result,
                    oracle_calls, oracle_arg, feedback_calls, feedback_arg,
                    budget, may_connect, save_calls, save_result, graph, feedback_llm, all_complete,
                    answer_text, llm >>

Next ==
    \E s \in Sessions :
        \/ Connect(s)
        \/ SendSessionStart(s)
        \/ SendGreeting(s)
        \/ SendFirstQuestion(s)
        \/ ClientSend(s)
        \/ Receive(s)
        \/ SendRejection(s)
        \/ Disconnect(s)
        \/ OracleStall(s)
        \/ OracleReturn(s)
        \/ SendReply(s)
        \/ SendStatus(s)
        \/ FeedbackReturn(s)
        \/ SendFeedback(s)
        \/ SendSessionEnd(s)
        \/ SendCrashError(s)

Spec == Init /\ [][Next]_vars

\* the longest session
SpecWorst == InitWorst /\ [][Next]_vars

\* two concurrent sessions
SpecPair == InitPair /\ [][Next]_vars

\* one session with failing writes and failing calls of the model
SpecFaulty == InitFaulty /\ [][Next]_vars

(***************************************************************************)
(* The session store alone: save_session is called with the snapshots the  *)
(* handler has in the first turn of a session and at its end.              *)
(***************************************************************************)
RECURSIVE AnswerAll(_)
\* the state after every question from the current one on was answered
\* once and judged complete
AnswerAll(state) ==
    LET current_question == get_current_question(state)
    IN  IF current_question = NoQuestion THEN state
        ELSE AnswerAll(
               validate_and_respond(
                 [state EXCEPT
                    !.answers = get_or_create_answer(@, current_question,
                                                     TextA)],
                 Llm("dict", "true", "")).state)

\* the state after the first answer was merged and judged with the
\* is_complete value c
FirstTurn(c) ==
    validate_and_respond(
      [NewState EXCEPT
         !.answers = get_or_create_answer(<<>>, QUESTIONS[1], TextA)],
      Llm("dict", c, "FOLLOW_UP_TEXT")).state

\* main.py 139-144, 228-229 and 277-281: SessionData objects handed to
\* save_session
StoreSnapshots ==
    { [state |-> NewState, feedback |-> "None"] }
    \cup { [state |-> FirstTurn(c), feedback |-> "None"] :
             c \in {"true", "false", "null"} }
    \cup { [state |-> AnswerAll(NewState), feedback |-> "None"] }
    \cup { [state |-> Completed(AnswerAll(NewState)), feedback |-> fb] :
             fb \in FeedbackOutcomes }

InitStore ==
    /\ InitCommon
    /\ budget = [probes |-> 0, varied |-> FALSE, faults |-> 0]
    /\ may_connect = {}

\* save_session(SessionData(session_id = s, state, feedback)) is called
StoreSave(s) ==
    /\ save_calls[s] < MaxStoreSaves
    /\ \E snapshot \in StoreSnapshots :
         /\ interview_state' =
              [interview_state EXCEPT ![s] = snapshot.state]
         /\ feedback' = [feedback EXCEPT ![s] = snapshot.feedback]
         /\ Save(s, snapshot.state, snapshot.feedback, budget)
    /\ UNCHANGED << pc, active_sessions, inbox, outgoing, last_sent, result,
                    oracle_calls, oracle_arg, feedback_calls, feedback_arg,
                    may_connect, graph, feedback_llm, all_complete,
                    answer_text, llm >>

NextStore == \E s \in Sessions : StoreSave(s)

SpecStore == InitStore /\ [][NextStore]_vars

(***************************************************************************)
(* The loop of the handler, entered with a state that validate_and_respond *)
(* can be given: a new one, one in a follow-up, and one past the catalog.  *)
(***************************************************************************)
AgentStates ==
    { NewState, FirstTurn("false"), AnswerAll(NewState),
      Completed(AnswerAll(NewState)) }

InitAgent ==
    /\ interview_state \in [Sessions -> AgentStates]
    /\ interview_state["s2"] = NewState
    /\ pc = [s \in Sessions |-> IF s = "s1" THEN "recv" ELSE "idle"]
    /\ active_sessions = {"s1"}
    /\ files = [save_session([s \in Sessions |-> NoFile], "s1",
                             interview_state["s1"], "None", "none").store
                  EXCEPT !["s2"] = NoFile]
    /\ feedback = [s \in Sessions |-> "None"]
    /\ inbox = [s \in Sessions |-> 0]
    /\ outgoing = [s \in Sessions |-> NoMsg]
    /\ last_sent = [s \in Sessions |-> IF s = "s1" THEN "question" ELSE "none"]
    /\ result = [s \in Sessions |-> NoResult]
    /\ oracle_calls = [s \in Sessions |-> 0]
    /\ oracle_arg = [s \in Sessions |-> EmptyStr]
    /\ feedback_calls = [s \in Sessions |-> 0]
    /\ feedback_arg = [s \in Sessions |-> <<>>]
    /\ answer_text = [s \in Sessions |-> NoAnswer]
    /\ llm = [s \in Sessions |-> NoLlm]
    /\ feedback_llm = [s \in Sessions |-> "none"]
    /\ all_complete = [s \in Sessions |-> TRUE]
    /\ save_calls = [s \in Sessions |-> IF s = "s1" THEN 1 ELSE 0]
    /\ save_result = [s \in Sessions |-> IF s = "s1" THEN "True" ELSE "none"]
    /\ graph = NoGraph
    /\ budget = [probes |-> 0, varied |-> TRUE, faults |-> 0]
    /\ may_connect = {}

\* main.py 179-324: the loop and what follows it
NextAgent ==
    \E s \in Sessions :
        \/ ClientSend(s)
        \/ Receive(s)
        \/ SendRejection(s)
        \/ Disconnect(s)
        \/ OracleStall(s)
        \/ OracleReturn(s)
        \/ SendReply(s)
        \/ SendStatus(s)
        \/ FeedbackReturn(s)
        \/ SendFeedback(s)
        \/ SendSessionEnd(s)
        \/ SendCrashError(s)

SpecAgent == InitAgent /\ [][NextAgent]_vars

(***************************************************************************)
(* The graph of interview_graph.py, run from its entry point on the state  *)
(* its caller gives it.  graph.node is the node to run next, "END" after   *)
(* the last one, "error" when the conditional edge has no such outcome;    *)
(* graph.routed is what _route_after_processing returned last.             *)
(***************************************************************************)
\* interview_graph.py 24 and 197: what the caller puts in next_action
\* ("missing": the key is not there)
CallerActions ==
    {"ask_question", "follow_up", "generate_feedback", "end", "missing"}

\* interview_graph.py 83-88: the outcomes the conditional edge declares
RoutingOutcomes == {"ask_question", "follow_up", "generate_feedback", "end"}

\* InterviewGraph._start_node
start_node(state) == [state EXCEPT !.next_action = "ask_question"]

\* InterviewGraph._ask_question_node
ask_question_node(state) ==
    IF get_current_question(state) # NoQuestion
    THEN [state EXCEPT !.next_action = "process_answer"]
    ELSE [state EXCEPT !.next_action = "generate_feedback"]

\* InterviewGraph._process_answer_node: a placeholder
process_answer_node(state) == state

\* InterviewGraph._follow_up_node
follow_up_node(state) == [state EXCEPT !.next_action = "process_answer"]

\* InterviewGraph._generate_feedback_node
generate_feedback_node(state) ==
    [state EXCEPT !.is_completed = TRUE, !.next_action = "end"]

\* InterviewGraph._route_after_processing
route_after_processing(state) ==
    IF state.next_action = "missing" THEN "end" ELSE state.next_action

\* interview_graph.py 80-89: the node the conditional edge leads to; a
\* value that is no key of the mapping raises KeyError
EdgeAfterProcessing(outcome) ==
    IF outcome = "end" THEN "END"
    ELSE IF outcome \in RoutingOutcomes THEN outcome
    ELSE "error"

InitGraph ==
    /\ InitHandlers
    /\ budget = [probes |-> 0, varied |-> FALSE, faults |-> 0]
    /\ may_connect = {}
    /\ graph \in { [node |-> "start", current_question_index |-> i,
                     is_completed |-> c, next_action |-> a,
                     routed |-> "none"] :
                      i \in 0..Len(QUESTIONS), c \in BOOLEAN,
                      a \in CallerActions }

\* interview_graph.py 65-91: the graph runs the node it stands at and
\* follows the node's edge
GraphStep ==
    /\ graph.node \notin {"none", "END", "error"}
    /\ graph' =
         CASE graph.node = "start" ->
                [start_node(graph) EXCEPT !.node = "ask_question"]
           [] graph.node = "ask_question" ->
                [ask_question_node(graph) EXCEPT !.node = "process_answer"]
           [] graph.node = "process_answer" ->
                LET after == process_answer_node(graph)
                    outcome == route_after_processing(after)
                IN  [after EXCEPT !.routed = outcome,
                                  !.node = EdgeAfterProcessing(outcome)]
           [] graph.node = "follow_up" ->
                [follow_up_node(graph) EXCEPT !.node = "process_answer"]
           [] graph.node = "generate_feedback" ->
                [generate_feedback_node(graph) EXCEPT !.node = "END"]
    /\ UNCHANGED << pc, interview_state, active_sessions, files, feedback,
                    inbox, outgoing, last_sent, result, oracle_calls,
                    oracle_arg, feedback_calls, feedback_arg, budget,
                    may_connect, save_calls, save_result, feedback_llm,
                    all_complete, answer_text, llm >>

NextGraph == GraphStep

SpecGraph == InitGraph /\ [][NextGraph]_vars

\* the steps of the handler of session s: the event loop runs a handler
\* whose await has completed
HandlerStep(s) ==
    \/ Connect(s)
    \/ SendSessionStart(s)
    \/ SendGreeting(s)
    \/ SendFirstQuestion(s)
    \/ Receive(s)
    \/ SendRejection(s)
    \/ OracleReturn(s)
    \/ SendReply(s)
    \/ SendStatus(s)
    \/ FeedbackReturn(s)
    \/ SendFeedback(s)
    \/ SendSessionEnd(s)
    \/ SendCrashError(s)

\* every handler whose await has completed is resumed; a model call that
\* has not stalled returns
LiveSpec == Spec /\ \A s \in Sessions : WF_vars(HandlerStep(s))

(***************************************************************************)
(* Properties.                                                             *)
(***************************************************************************)
\* the state and the feedback whose dump the file of session s holds
FileState(s) == ParseState(files[s].data.state)
\* the same state without its answers
FileCursor(s) ==
    [current_question_index |-> files[s].data.state.current_question_index,
     is_completed |-> files[s].data.state.is_completed = "true",
     completed_at |-> ParseTime(files[s].data.state.completed_at)]

FileFeedback(s) ==
    IF files[s].data.feedback = "null" THEN "None" ELSE files[s].data.feedback

Index(s) == interview_state[s].current_question_index
Answers(s) == interview_state[s].answers
LastAnswer(s) == Answers(s)[Len(Answers(s))]

\* the step in which validate_and_respond returns its result to the handler
TurnDecided(s) == pc[s] = "oracle" /\ pc'[s] \in {"reply", "status"}

\* the step in which the handler reads a frame and binds answer_text
AnswerRead(s) ==
    /\ pc[s] = "recv"
    /\ pc'[s] # "recv"
    /\ answer_text'[s].t = "str"

\* an accepted answer reaches validate_and_respond
AnswerAccepted(s) == pc[s] = "recv" /\ pc'[s] = "oracle"

----------------------------------------------------------------------------
C1_Step(s) ==
    LET i == Index(s)
        j == interview_state'[s].current_question_index
    IN  /\ j \in 0..8
        /\ \/ j = i
           \/ j = i + 1 /\ TurnDecided(s)

\* C1: in every session the index never decreases, moves by at most one per
\* turn (only in the step that decides the turn) and stays within 0..8.
C1_IndexMonotoneBounded == [][\A s \in Sessions : C1_Step(s)]_vars

\* C1 witness: the index has moved to the last question through a forced
\* advance, and the last submission was rejected.
C1_Witness ==
    \E s \in Sessions :
        /\ Index(s) = 7
        /\ last_sent[s] = "error"
        /\ \E k \in 1..Len(Answers(s)) :
             Answers(s)[k].follow_up_count = 2 /\ ~IsTrue(Answers(s)[k].is_complete)

----------------------------------------------------------------------------
C2_Step(s) ==
    /\ \A k \in 1..Len(interview_state'[s].answers) :
         interview_state'[s].answers[k].follow_up_count <= 2
    /\ (TurnDecided(s) /\ LastAnswer(s).follow_up_count = 2)
         => interview_state'[s].current_question_index = Index(s) + 1

\* C2: follow_up_count never exceeds 2, and a turn decided for a record
\* whose follow_up_count is already 2 advances the index whatever the
\* verdict is.
C2_FollowUpCeiling == [][\A s \in Sessions : C2_Step(s)]_vars

\* C2 witness: question 1 was answered three times, the third verdict was
\* still "incomplete", and the index is 1.
C2_Witness ==
    \E s \in Sessions :
        /\ Index(s) = 1
        /\ Len(Answers(s)) = 1
        /\ Answers(s)[1].follow_up_count = 2
        /\ ~IsTrue(Answers(s)[1].is_complete)

----------------------------------------------------------------------------
\* C3: whenever the oracle call fails (the model call raises, or its
\* response is no verdict), the turn is decided fail-open: the record is
\* complete, the index has advanced, and the message to the user is no
\* error notice.
C3_FailOpen ==
    \A s \in Sessions :
        llm[s].k \in {"raise", "unparsable", "nondict"}
          => /\ pc[s] \in {"reply", "status"}
             /\ result[s].action \in {"next_question", "complete"}
             /\ outgoing[s].type # "error"
             /\ Index(s) >= 1
             /\ IsTrue(Answers(s)[Index(s)].is_complete)

----------------------------------------------------------------------------
C4_State(s) ==
    /\ feedback_calls[s] <= 1
    /\ Index(s) < 8 => feedback_calls[s] = 0 /\ ~interview_state[s].is_completed
    /\ Index(s) = 8 =>
         /\ interview_state[s].is_completed
         /\ \/ pc[s] = "status" /\ feedback_calls[s] = 0
            \/ /\ pc[s] \in {"feedback", "send_feedback", "send_end", "done"}
               /\ feedback_calls[s] = 1
    /\ feedback_calls[s] = 1 =>
         /\ feedback_arg[s] = Answers(s)
         /\ Len(feedback_arg[s]) = 8
         /\ \A k \in 1..8 :
              feedback_arg[s][k].question_category = QUESTIONS[k].category

C4_Step(s) ==
    /\ interview_state[s].is_completed => interview_state'[s].is_completed
    /\ feedback_calls'[s] >= feedback_calls[s]

\* C4: is_completed becomes true in the step that moves the index to 8 and
\* never becomes false again; from then on the handler is about to call
\* generate_feedback or has called it exactly once, with the full ordered
\* answers list, and it calls it at no other time.
C4_CompletionOnce ==
    /\ [](\A s \in Sessions : C4_State(s))
    /\ [][\A s \in Sessions : C4_Step(s)]_vars

\* C4 witness: a session has ended after one generate_feedback call.
C4_Witness ==
    \E s \in Sessions :
        /\ pc[s] = "done"
        /\ interview_state[s].is_completed
        /\ feedback_calls[s] = 1

----------------------------------------------------------------------------
TextAB ==
    << [ch |-> "A", n |-> 1], [ch |-> " ", n |-> 1], [ch |-> "B", n |-> 1] >>

C5_Step(s) ==
    AnswerAccepted(s) =>
      LET old == Answers(s)
          new == interview_state'[s].answers
          raw == answer_text'[s].v
          q == QUESTIONS[Index(s) + 1]
          same == {k \in 1..Len(old) : old[k].question_category = q.category}
      IN  IF same = {}
          THEN new = Append(old, [question_category |-> q.category,
                                  question_text |-> q.question_text,
                                  answer_text |-> raw,
                                  follow_up_count |-> 0,
                                  is_complete |-> "False"])
          ELSE /\ Len(new) = Len(old)
               /\ \E k \in same :
                    /\ new = [old EXCEPT
                                ![k].answer_text =
                                  Concat(Concat(@, Run(" ", 1)), raw)]
                    /\ (old[k].answer_text = TextA /\ raw = TextB)
                         => new[k].answer_text = TextAB

\* C5: the first answer to a question appends one record holding the raw
\* text, follow_up_count 0 and is_complete false; a later answer to the same
\* question appends a space and the new text to that record ("A" then "B"
\* gives "A B") and adds no record.
C5_MergeFragments == [][\A s \in Sessions : C5_Step(s)]_vars

\* C5 witness: "A" then "B" were submitted for question 1 and answers holds
\* the single record "A B".
C5_Witness ==
    \E s \in Sessions :
        /\ Len(Answers(s)) = 1
        /\ Answers(s)[1].answer_text = TextAB

----------------------------------------------------------------------------
\* C6: answers holds at most one record per question category.
C6_OneRecordPerCategory ==
    \A s \in Sessions :
        \A j, k \in 1..Len(Answers(s)) :
            Answers(s)[j].question_category = Answers(s)[k].question_category
              => j = k

\* C6 witness: all 8 questions were answered, one of them through two
\* follow-ups and a forced advance, after a rejected submission.
C6_Witness ==
    \E s \in Sessions :
        /\ Len(Answers(s)) = 8
        /\ pc[s] = "oracle"
        /\ last_sent[s] = "error"
        /\ \E k \in 1..7 :
             Answers(s)[k].follow_up_count = 2 /\ ~IsTrue(Answers(s)[k].is_complete)

----------------------------------------------------------------------------
\* C7: the categories of answers are the first Len(answers) categories of
\* the catalog, in catalog order, and a completed session holds all 8.
C7_AnswersInCatalogOrder ==
    \A s \in Sessions :
        /\ Len(Answers(s)) <= 8
        /\ \A k \in 1..Len(Answers(s)) :
             Answers(s)[k].question_category = QUESTIONS[k].category
        /\ interview_state[s].is_completed => Len(Answers(s)) = 8

\* C7 witness: a session is being finalized with 8 records, the second of
\* them merged from two answers.
C7_Witness ==
    \E s \in Sessions :
        /\ pc[s] = "feedback"
        /\ Len(Answers(s)) = 8
        /\ Answers(s)[2].follow_up_count = 1

----------------------------------------------------------------------------
IsBlankText(v) == \A k \in 1..Len(v) : v[k].ch \in {" ", "\t", "\n"}

C8_Step(s) ==
    /\ AnswerRead(s) =>
         LET v == answer_text'[s].v
         IN  IF IsBlankText(v) \/ StrLen(v) > 2000
             THEN /\ pc'[s] = "reject"
                  /\ outgoing'[s].type = "error"
                  /\ outgoing'[s].content \in {"REPEAT_ANSWER", "TOO_LONG"}
                  /\ interview_state'[s] = interview_state[s]
                  /\ oracle_calls'[s] = oracle_calls[s]
                  /\ files'[s] = files[s]
             ELSE /\ pc'[s] = "oracle"
                  /\ oracle_calls'[s] = oracle_calls[s] + 1
    /\ pc[s] = "reject" =>
         /\ pc'[s] \in {"reject", "recv"}
         /\ interview_state'[s] = interview_state[s]
         /\ oracle_calls'[s] = oracle_calls[s]
         /\ pc'[s] = "recv" => last_sent'[s] = "error"

\* C8: an answer that is empty, whitespace-only or longer than 2000
\* characters is answered with an error message, without an oracle call or
\* a merge and with the index and the answers unchanged, and the handler
\* waits for the next answer; any other answer, one of exactly 2000
\* characters included, reaches validate_and_respond.
C8_RejectedAnswers == [][\A s \in Sessions : C8_Step(s)]_vars

\* C8 witness: after a rejected submission, an answer of exactly 2000
\* characters has been accepted and handed to the oracle.
C8_Witness ==
    \E s \in Sessions :
        /\ pc[s] = "oracle"
        /\ last_sent[s] = "error"
        /\ StrLen(answer_text[s].v) = 2000

----------------------------------------------------------------------------
\* C9: a malformed submission (a frame that is no JSON, or whose content is
\* no text) is answered with the corrective prompt and the session goes on
\* waiting for an answer.
C9_MalformedRejected ==
    \A s \in Sessions :
        answer_text[s].t \in {"undecodable", "num"}
          => /\ pc[s] = "reject"
             /\ outgoing[s] = Msg("error", "REPEAT_ANSWER", "", FALSE)

----------------------------------------------------------------------------
C10_Step(s) ==
    /\ interview_state[s].is_completed =>
         /\ inbox'[s] >= inbox[s]
         /\ oracle_calls'[s] = oracle_calls[s]
         /\ interview_state'[s].current_question_index = Index(s)
         /\ interview_state'[s].answers = Answers(s)
         /\ interview_state'[s].is_completed
    /\ pc[s] \in {"send_feedback", "send_end", "done"} =>
         /\ interview_state'[s] = interview_state[s]
         /\ files'[s] = files[s]
         /\ feedback'[s] = feedback[s]
         /\ feedback_calls'[s] = feedback_calls[s]

\* C10: once is_completed is true no further submission is read: the index,
\* the answers and is_completed stay as they are and the oracle is not
\* called again; and once the feedback is stored, the session state, the
\* session file and the feedback never change and generate_feedback is not
\* called again.
C10_NoTurnAfterCompletion == [][\A s \in Sessions : C10_Step(s)]_vars

\* C10 witness: a submission waits unread on the socket of a session that
\* has ended with its feedback stored.
C10_Witness ==
    \E s \in Sessions :
        /\ pc[s] = "done"
        /\ inbox[s] > 0
        /\ FileFeedback(s) # "None"

----------------------------------------------------------------------------
\* the step in which generate_feedback returns to the handler, or raises
FeedbackDecided(s) == pc[s] = "feedback" /\ pc'[s] # "feedback"

C11_Step(s) ==
    /\ (FeedbackDecided(s) /\ feedback_llm'[s] # "ok") =>
         /\ feedback'[s] = "fallback"
         /\ pc'[s] = "send_feedback"
         /\ outgoing'[s] = Msg("feedback", "fallback", "", FALSE)
         /\ interview_state'[s].is_completed
         /\ FileCursor(s)'.is_completed
         /\ FileFeedback(s)' = "fallback"
    /\ pc[s] = "send_feedback" =>
         /\ pc'[s] \in {"send_feedback", "send_end"}
         /\ pc'[s] = "send_end" =>
              /\ last_sent'[s] = "feedback"
              /\ outgoing'[s].type = "session_end"
    /\ pc[s] = "send_end" =>
         /\ pc'[s] \in {"send_end", "done"}
         /\ pc'[s] = "done" => last_sent'[s] = "session_end"

\* C11: when the model call of generate_feedback fails, or its response is
\* not parseable or of the wrong shape, generate_feedback returns the
\* fallback feedback and raises nothing: the session is completed and stored
\* with it, and the handler's next two messages are the feedback and the
\* session end.
C11_FeedbackFallback == [][\A s \in Sessions : C11_Step(s)]_vars

\* C11 witness: a session has ended with the fallback feedback after a
\* response of the wrong shape.
C11_Witness ==
    \E s \in Sessions :
        /\ pc[s] = "done"
        /\ feedback_llm[s] = "wrong_shape"
        /\ feedback[s] = "fallback"
        /\ last_sent[s] = "session_end"

----------------------------------------------------------------------------
\* C12: an oracle call that is abandoned (it never returns) is eventually
\* followed by a directive for the turn: the next question, a follow-up or
\* the finalization.
C12_AbandonedCallDecided ==
    \A s \in Sessions :
        (pc[s] = "oracle" /\ llm[s].k = "hang")
          ~> (pc[s] \in {"reply", "status"} /\ result[s] # NoResult)

----------------------------------------------------------------------------
\* the number of submissions merged into a text (no wording holds a space)
Fragments(v) == Cardinality({k \in 1..Len(v) : v[k].ch # " "})

RECURSIVE SumFragments(_)
SumFragments(answers) ==
    IF answers = <<>> THEN 0
    ELSE Fragments(answers[1].answer_text) + SumFragments(Tail(answers))

\* C13: every accepted submission is merged into the record of its question
\* and counted; no record receives more than 3 of them, a record that has
\* received 3 is left behind as soon as its turn is decided, so no session
\* accepts more than 24, and a session whose 24th turn is decided is
\* completed.
C13_TurnsBounded ==
    \A s \in Sessions :
        /\ oracle_calls[s] = SumFragments(Answers(s))
        /\ oracle_calls[s] <= 24
        /\ \A k \in 1..Len(Answers(s)) :
             /\ Fragments(Answers(s)[k].answer_text) <= 3
             /\ (Fragments(Answers(s)[k].answer_text) = 3
                   /\ pc[s] \notin {"oracle", "crash", "crashed"})
                  => Index(s) >= k
        /\ (oracle_calls[s] = 24 /\ pc[s] \notin {"oracle", "crash", "crashed"})
             => Index(s) = 8 /\ interview_state[s].is_completed

\* C13 witness: a session has ended after 24 accepted submissions, 3 for
\* each question.
C13_Witness ==
    \E s \in Sessions :
        /\ pc[s] = "done"
        /\ oracle_calls[s] = 24
        /\ interview_state[s].is_completed
        /\ \A k \in 1..8 : Fragments(Answers(s)[k].answer_text) = 3

----------------------------------------------------------------------------
C14_State(s) ==
    (all_complete[s] /\ pc[s] # "oracle" /\ llm[s].k # "nondict") =>
      /\ Index(s) = oracle_calls[s]
      /\ Len(Answers(s)) = oracle_calls[s]
      /\ \A k \in 1..Len(Answers(s)) :
           /\ Answers(s)[k].follow_up_count = 0
           /\ IsTrue(Answers(s)[k].is_complete)
      /\ interview_state[s].is_completed <=> oracle_calls[s] = 8
      /\ feedback_calls[s] <= 1
      /\ feedback_calls[s] = 1 => oracle_calls[s] = 8
      /\ pc[s] = "done" => feedback_calls[s] = 1

C14_Step(s) ==
    (TurnDecided(s) /\ all_complete'[s]) =>
      /\ interview_state'[s].current_question_index = Index(s) + 1
      /\ result'[s].action \in {"next_question", "complete"}
      /\ ~outgoing'[s].is_follow_up

\* C14: as long as every verdict of a session is "complete", each accepted
\* answer moves the index by exactly one and no follow-up is issued: after k
\* accepted answers there are k records, each with follow_up_count 0, and
\* after the 8th the session is completed with exactly one generate_feedback
\* call.
C14_StraightThrough ==
    /\ [](\A s \in Sessions : C14_State(s))
    /\ [][\A s \in Sessions : C14_Step(s)]_vars

\* C14 witness: a session has ended after 8 accepted answers that were all
\* judged complete.
C14_Witness ==
    \E s \in Sessions :
        /\ pc[s] = "done"
        /\ all_complete[s]
        /\ oracle_calls[s] = 8
        /\ Len(Answers(s)) = 8
        /\ feedback_calls[s] = 1

----------------------------------------------------------------------------
\* completed_at is set exactly when is_completed is true
StampedWithFlag(state) == state.is_completed <=> state.completed_at # "None"

\* C15: is_completed and completed_at are set together: in the state of
\* every handler, and in every snapshot in the session store, completed_at
\* is set if and only if is_completed is true.
C15_CompletedAtWithFlag ==
    \A s \in Sessions :
        /\ StampedWithFlag(interview_state[s])
        /\ files[s].exists => StampedWithFlag(FileCursor(s))

----------------------------------------------------------------------------
\* is_completed is true exactly at the end of the catalog
FlagAtEnd(state) ==
    state.is_completed <=> state.current_question_index = Len(QUESTIONS)

\* C16: is_completed is never set back to false, and in the state of every
\* handler and in every stored snapshot it is true exactly when
\* current_question_index is 8.
C16_CompletedTiedToCursor ==
    /\ [](\A s \in Sessions :
             /\ FlagAtEnd(interview_state[s])
             /\ files[s].exists => FlagAtEnd(FileCursor(s)))
    /\ [][\A s \in Sessions :
             /\ interview_state[s].is_completed
                  => interview_state'[s].is_completed
             /\ (files[s].exists /\ FileCursor(s).is_completed)
                  => FileCursor(s)'.is_completed]_vars

\* C16 witness: the 8th question was left through the follow-up ceiling and
\* the state with index 8 and is_completed true has been stored.
C16_Witness ==
    \E s \in Sessions :
        /\ pc[s] = "status"
        /\ FileCursor(s).current_question_index = 8
        /\ FileCursor(s).is_completed
        /\ Answers(s)[8].follow_up_count = 2
        /\ ~IsTrue(Answers(s)[8].is_complete)

----------------------------------------------------------------------------
\* the oracle's verdict in the step that decides a turn
VerdictIncomplete(s) ==
    llm'[s].k = "dict" /\ llm'[s].is_complete \in {"false", "null"}

C17_Step(s) ==
    (/\ TurnDecided(s)
     /\ VerdictIncomplete(s)
     /\ Answers(s)[Index(s) + 1].follow_up_count < 2) =>
      LET i == Index(s) + 1
          new == interview_state'[s]
      IN  /\ new.answers[i].follow_up_count
                = Answers(s)[i].follow_up_count + 1
          /\ \A k \in 1..Len(Answers(s)) :
               k # i => new.answers[k] = Answers(s)[k]
          /\ Len(new.answers) = Len(Answers(s))
          /\ new.answers[i].answer_text = Answers(s)[i].answer_text
          /\ new.current_question_index = Index(s)
          /\ new.is_completed = interview_state[s].is_completed
          /\ result'[s].action = "follow_up"
          /\ result'[s].question_category = QUESTIONS[i].category
          /\ outgoing'[s].type = "question"
          /\ outgoing'[s].is_follow_up
          /\ outgoing'[s].category = QUESTIONS[i].category
          /\ pc'[s] = "reply"

\* C17: a turn decided with the verdict "incomplete" for a record whose
\* follow_up_count is under 2 increments that count by exactly 1 and yields
\* a follow-up tagged with the category of the current question; the index,
\* is_completed and every other record stay as they are.
C17_FollowUpTurn == [][\A s \in Sessions : C17_Step(s)]_vars

\* C17 witness: the second follow-up to question 2 is about to be sent.
C17_Witness ==
    \E s \in Sessions :
        /\ pc[s] = "reply"
        /\ outgoing[s].is_follow_up
        /\ outgoing[s].category = "motivation"
        /\ Index(s) = 1
        /\ Answers(s)[2].follow_up_count = 2

----------------------------------------------------------------------------
\* C18: the text of a follow-up is the oracle's follow-up text when it
\* supplied one, and "Could you tell me more about that?" when the text is
\* missing or empty; a follow-up sent to the user is never empty.
C18_FollowUpNeverEmpty ==
    \A s \in Sessions :
        (pc[s] = "reply" /\ result[s].action = "follow_up") =>
          /\ outgoing[s].content # ""
          /\ outgoing[s].content =
               IF llm[s].follow_up \in {"missing", ""}
               THEN "Could you tell me more about that?"
               ELSE llm[s].follow_up

----------------------------------------------------------------------------
\* the verdict of the deciding step is "complete": the oracle said so, left
\* is_complete out, or failed and was replaced by the fail-open default
VerdictComplete(s) ==
    \/ llm'[s].k \in {"raise", "unparsable"}
    \/ llm'[s].k = "dict" /\ llm'[s].is_complete \in {"true", "missing"}

C19_Step(s) ==
    (/\ TurnDecided(s)
     /\ \/ VerdictComplete(s)
        \/ Answers(s)[Index(s) + 1].follow_up_count >= 2) =>
      LET j == Index(s) + 1
      IN  /\ interview_state'[s].current_question_index = j
          /\ IF j < 8
             THEN /\ result'[s] =
                       [action |-> "next_question",
                        message |-> QUESTIONS[j + 1].question_text,
                        question_category |-> QUESTIONS[j + 1].category]
                  /\ outgoing'[s] =
                       Msg("question", QUESTIONS[j + 1].question_text,
                           QUESTIONS[j + 1].category, FALSE)
                  /\ pc'[s] = "reply"
             ELSE /\ result'[s].action = "complete"
                  /\ result'[s].question_category = ""
                  /\ outgoing'[s].type = "status"
                  /\ pc'[s] = "status"

\* C19: a turn decided for a record that is judged complete, or whose
\* follow_up_count is 2 already, moves the index by exactly 1; below 8 the
\* result is next_question with the text and the category of the question
\* at the new index, and at 8 it is complete and no question is sent.
C19_AdvancingTurn == [][\A s \in Sessions : C19_Step(s)]_vars

\* C19 witness: question 3 is about to be sent after question 2 was left
\* through the follow-up ceiling.
C19_Witness ==
    \E s \in Sessions :
        /\ pc[s] = "reply"
        /\ result[s].action = "next_question"
        /\ outgoing[s].category = "industry_experience"
        /\ Index(s) = 2
        /\ Answers(s)[2].follow_up_count = 2
        /\ ~IsTrue(Answers(s)[2].is_complete)

----------------------------------------------------------------------------
C20_Step(s) ==
    TurnDecided(s) =>
      LET i == Index(s) + 1
          old == Answers(s)[i]
          new == interview_state'[s].answers[i]
      IN  /\ oracle_arg[s] = old.answer_text
          /\ VerdictIncomplete(s) => ~IsTrue(new.is_complete)
          /\ VerdictComplete(s) => IsTrue(new.is_complete)
          /\ VerdictIncomplete(s) \/ VerdictComplete(s)
          /\ old.follow_up_count = 2 =>
               /\ new.follow_up_count = 2
               /\ interview_state'[s].current_question_index = i

\* C20: the turn is decided on the verdict for the accumulated answer, and
\* the record's is_complete is that verdict (true when the oracle failed or
\* left it out): a record left through the follow-up ceiling on an
\* "incomplete" verdict keeps is_complete false, and one whose third
\* submission is judged complete has is_complete true and follow_up_count 2.
C20_VerdictRecorded == [][\A s \in Sessions : C20_Step(s)]_vars

\* C20 witness: the third submission for question 1 was judged complete.
C20_Witness ==
    \E s \in Sessions :
        /\ Index(s) = 1
        /\ Fragments(Answers(s)[1].answer_text) = 3
        /\ Answers(s)[1].follow_up_count = 2
        /\ IsTrue(Answers(s)[1].is_complete)

----------------------------------------------------------------------------
C21_Step(s) ==
    AnswerAccepted(s) =>
      LET i == Index(s) + 1
          new == interview_state'[s].answers
      IN  /\ Len(new) >= i
          /\ i <= Len(Answers(s)) =>
               /\ IsPrefix(Answers(s)[i].answer_text, new[i].answer_text)
               /\ StrLen(new[i].answer_text)
                    = StrLen(Answers(s)[i].answer_text) + 1
                        + StrLen(answer_text'[s].v)
          /\ oracle_arg'[s] = new[i].answer_text
          /\ Fragments(oracle_arg'[s]) = Fragments(new[i].answer_text)

\* C21: a merge keeps the text captured so far as a prefix of the record's
\* answer_text and appends a space and the new fragment, and the oracle is
\* called with the whole accumulated text of the record.
C21_TextNeverDiscarded == [][\A s \in Sessions : C21_Step(s)]_vars

\* C21 witness: the oracle is being asked about the text accumulated from
\* three submissions for question 1.
C21_Witness ==
    \E s \in Sessions :
        /\ pc[s] = "oracle"
        /\ Index(s) = 0
        /\ Fragments(oracle_arg[s]) = 3
        /\ oracle_arg[s] = Answers(s)[1].answer_text
        /\ IsPrefix(TextAB, oracle_arg[s])

----------------------------------------------------------------------------
\* the handler has not yet entered its loop
Starting(s) == pc[s] \in {"idle", "start", "greet", "first"}

C22_Step(s) ==
    /\ (pc[s] = "idle" /\ pc'[s] # "idle") =>
         /\ pc'[s] = "start"
         /\ interview_state'[s] =
              [current_question_index |-> 0, answers |-> <<>>,
               is_completed |-> FALSE, completed_at |-> "None"]
         /\ outgoing'[s].type = "session_start"
    /\ (pc[s] = "start" /\ pc'[s] # "start") =>
         /\ pc'[s] = "greet"
         /\ outgoing'[s] = Msg("question", "GREETING", "", FALSE)
    /\ (pc[s] = "greet" /\ pc'[s] # "greet") =>
         /\ pc'[s] = "first"
         /\ last_sent'[s] = "question"
         /\ outgoing'[s] = Msg("question", QUESTIONS[1].question_text,
                               QUESTIONS[1].category, FALSE)
    /\ (pc[s] = "first" /\ pc'[s] # "first") =>
         /\ pc'[s] = "recv"
         /\ last_sent'[s] = "question"
    /\ (pc'[s] \in {"idle", "start", "greet", "first"} /\ pc'[s] # pc[s]) =>
         Starting(s)
    /\ (Starting(s) /\ pc[s] # "idle") =>
         /\ interview_state'[s] = interview_state[s]
         /\ interview_state[s].current_question_index = 0
         /\ interview_state[s].answers = <<>>
         /\ inbox'[s] >= inbox[s]
         /\ oracle_calls'[s] = 0

\* C22: a session starts with index 0, no answers and is_completed false;
\* the handler sends the session-start message, the greeting and then the
\* first question of the catalog, each once and in this order, and only then
\* enters its loop; until then no frame is read and the index and the
\* answers do not change.
C22_SessionStart == [][\A s \in Sessions : C22_Step(s)]_vars

\* C22 witness: the first question is about to be sent while a frame of the
\* client is already waiting.
C22_Witness ==
    \E s \in Sessions :
        /\ pc[s] = "first"
        /\ outgoing[s].category = "introduction"
        /\ last_sent[s] = "question"
        /\ inbox[s] > 0
        /\ interview_state[s] = NewState

----------------------------------------------------------------------------
\* a state whose index is i
StateAt(i) == [NewState EXCEPT !.current_question_index = i]

\* C28: the catalog holds 8 questions with pairwise distinct categories in
\* the order introduction, motivation, industry_experience, learnings,
\* strengths_weaknesses, future_vision, unique_value, availability;
\* get_current_question returns the entry at the index for 0..7 and none
\* from 8 on; and the question a handler holds for every index it reaches is
\* that entry.
C28_Catalog ==
    /\ Len(QUESTIONS) = 8
    /\ [k \in 1..8 |-> QUESTIONS[k].category] =
         << "introduction", "motivation", "industry_experience", "learnings",
            "strengths_weaknesses", "future_vision", "unique_value",
            "availability" >>
    /\ \A j, k \in 1..8 :
         QUESTIONS[j].category = QUESTIONS[k].category => j = k
    /\ \A i \in 0..7 : get_current_question(StateAt(i)) = QUESTIONS[i + 1]
    /\ \A i \in 8..10 : get_current_question(StateAt(i)) = NoQuestion
    /\ \A s \in Sessions :
         /\ Index(s) \in 0..8
         /\ get_current_question(interview_state[s]) =
              IF Index(s) < 8 THEN QUESTIONS[Index(s) + 1] ELSE NoQuestion
         /\ (pc[s] = "reply" /\ result[s].action = "next_question") =>
              /\ outgoing[s].content = QUESTIONS[Index(s) + 1].question_text
              /\ outgoing[s].category = QUESTIONS[Index(s) + 1].category

\* C28 witness: the handler holds index 8, where there is no question, after
\* having asked the 8th question of the catalog.
C28_Witness ==
    \E s \in Sessions :
        /\ Index(s) = 8
        /\ get_current_question(interview_state[s]) = NoQuestion
        /\ Answers(s)[8].question_text = QUESTIONS[8].question_text
        /\ pc[s] = "send_end"

----------------------------------------------------------------------------
\* the step is one of session s: its handler runs, or its client sends
Acts(s) == pc'[s] # pc[s] \/ llm'[s] # llm[s] \/ inbox'[s] # inbox[s]

C23_Step(s, t) ==
    (s # t /\ Acts(s)) =>
      /\ interview_state'[t] = interview_state[t]
      /\ files'[t] = files[t]
      /\ feedback'[t] = feedback[t]
      /\ oracle_calls'[t] = oracle_calls[t]
      /\ pc'[t] = pc[t]
      /\ (t \in active_sessions) = (t \in active_sessions')

\* C23: a step of one session (a turn, a rejection, a completion, a
\* disconnect or an error) changes neither the index, the answers,
\* is_completed, the feedback or the stored snapshot of another session, nor
\* that session's entry in active_sessions.
C23_SessionsIndependent == [][\A s, t \in Sessions : C23_Step(s, t)]_vars

\* C23 witness: one session has been completed and stored while the other,
\* two questions in, has ended with an error.
C23_Witness ==
    /\ pc["s1"] = "done"
    /\ FileCursor("s1").is_completed
    /\ pc["s2"] = "crashed"
    /\ Index("s2") = 2
    /\ FileState("s2") = interview_state["s2"]
    /\ active_sessions = {}

----------------------------------------------------------------------------
\* a turn of session s is in flight: an answer was read and its directive
\* has not been sent yet
InFlight(s) == pc[s] \in {"oracle", "reply", "reject", "status", "feedback",
                          "send_feedback", "send_end", "crash"}

C24_Step(s) ==
    /\ inbox'[s] < inbox[s] =>
         /\ inbox'[s] = inbox[s] - 1
         /\ pc[s] = "recv"
         /\ ~InFlight(s)
         /\ result[s] = NoResult
         /\ llm[s] = NoLlm
         /\ outgoing[s] = NoMsg
         /\ FileState(s) = interview_state[s]
    /\ oracle_calls'[s] # oracle_calls[s] =>
         /\ oracle_calls'[s] = oracle_calls[s] + 1
         /\ inbox'[s] = inbox[s] - 1
    /\ InFlight(s) =>
         /\ inbox'[s] >= inbox[s]
         /\ oracle_calls'[s] = oracle_calls[s]

----------------------------------------------------------------------------
\* the step of session s calls save_session and the call returns False
SaveFailed(s) == save_calls'[s] # save_calls[s] /\ save_result'[s] = "False"

\* the handler of session s is about to send the message in outgoing
Sending(s) == pc[s] \in {"start", "reply", "status", "send_feedback"}

C25_Step(s) ==
    /\ save_calls'[s] # save_calls[s] =>
         /\ save_result'[s] \in {"True", "False"}
         /\ Sending(s)'
    /\ SaveFailed(s) =>
         /\ files'[s] \in {files[s], Truncated}
         /\ outgoing'[s].type \in {"session_start", "question", "status",
                                    "feedback"}
         /\ pc[s] = "idle" => interview_state'[s] = NewState
         /\ pc[s] = "oracle" =>
              LET r == validate_and_respond(
                         interview_state[s],
                         validate_answer_completeness(llm'[s]))
              IN  /\ interview_state'[s] = r.state
                  /\ result'[s] = r.result
                  /\ r.result.action # "complete"
                       => outgoing'[s].content = r.result.message
         /\ pc[s] = "feedback" =>
              /\ interview_state'[s] = Completed(interview_state[s])
              /\ feedback'[s] \in FeedbackOutcomes
              /\ outgoing'[s].content = feedback'[s]
    /\ (save_result[s] = "False" /\ Sending(s) /\ pc'[s] # pc[s]) =>
         /\ last_sent'[s] = outgoing[s].type
         /\ interview_state'[s] = interview_state[s]
         /\ pc'[s] \in {"greet", "recv", "feedback", "send_end"}

\* C25: a write that fails makes save_session return False and nothing
\* else: the handler does not end, its state keeps the update of the turn,
\* the message of the turn is sent next, and the file is left as it was or
\* unreadable; a session whose handler has ended normally is completed with
\* all 8 records, whatever its writes did.
C25_SaveFailureIgnored ==
    /\ [][\A s \in Sessions : C25_Step(s)]_vars
    /\ [](\A s \in Sessions :
             pc[s] = "done" =>
                 /\ interview_state[s].is_completed
                 /\ Index(s) = Len(QUESTIONS)
                 /\ Len(Answers(s)) = Len(QUESTIONS)
                 /\ feedback[s] \in FeedbackOutcomes)

\* C25 witness: the failures of the run are used up, the last write has
\* failed and left the file unreadable; the session has ended with its
\* feedback sent and all 8 records.
C25_Witness ==
    \E s \in Sessions :
        /\ pc[s] = "done"
        /\ last_sent[s] = "session_end"
        /\ budget.faults = 0
        /\ save_result[s] = "False"
        /\ files[s] = Truncated
        /\ interview_state[s].is_completed
        /\ Len(Answers(s)) = 8

----------------------------------------------------------------------------
\* 1 if the step is of the kind given, else 0
Count(step) == IF step THEN 1 ELSE 0

\* the steps in which the handler of session s calls generate_feedback and
\* save_session
FeedbackCalled(s) == pc[s] = "status" /\ pc'[s] = "feedback"
SaveCalled(s) ==
    \/ pc[s] = "idle" /\ pc'[s] = "start"
    \/ TurnDecided(s)
    \/ pc[s] = "feedback" /\ pc'[s] = "send_feedback"

C30_Step(s) ==
    /\ oracle_calls'[s] = oracle_calls[s] + Count(AnswerAccepted(s))
    /\ feedback_calls'[s] = feedback_calls[s] + Count(FeedbackCalled(s))
    /\ save_calls'[s] = save_calls[s] + Count(SaveCalled(s))
    /\ pc'[s] = "reject" => oracle_calls'[s] = oracle_calls[s]
    /\ (pc[s] = "oracle" /\ llm'[s].k \in {"raise", "unparsable", "nondict"})
         => pc'[s] \in {"reply", "status", "crash"}
    /\ (pc[s] = "feedback" /\ feedback_llm'[s] # feedback_llm[s])
         => pc'[s] = "send_feedback"

\* C30: nothing is tried twice: the oracle is called once in the step that
\* accepts a submission and in no other step (not for a rejected one, and not
\* again when its call fails), generate_feedback is called once per session,
\* and save_session once per connection, per decided turn and per feedback,
\* whether the call fails or not.
C30_NoRetries ==
    /\ [][\A s \in Sessions : C30_Step(s)]_vars
    /\ [](\A s \in Sessions :
             /\ feedback_calls[s] <= 1
             /\ save_calls[s] <= oracle_calls[s] + 2)

\* C30 witness: the oracle call of the second submission has failed and so
\* has the write of that turn; the oracle has been called twice and
\* save_session three times.
C30_Witness ==
    \E s \in Sessions :
        /\ pc[s] = "reply"
        /\ llm[s].k = "raise"
        /\ save_result[s] = "False"
        /\ oracle_calls[s] = 2
        /\ save_calls[s] = 3

----------------------------------------------------------------------------
\* C26: in the session store, load_session of an id returns the snapshot
\* that the last successful save_session call for that id was given, and
\* None for an id that was never saved; list_sessions returns the ids that
\* were saved.
C26_StoreRoundTrip ==
    /\ \A s \in Sessions :
         /\ save_calls[s] = 0 => load_session(files, s) = NoSession
         /\ (save_calls[s] > 0 /\ save_result[s] = "True") =>
              load_session(files, s) =
                [found |-> TRUE, state |-> interview_state[s],
                 feedback |-> feedback[s]]
    /\ list_sessions(files) = {s \in Sessions : save_calls[s] > 0}

\* the same for the snapshots whose records all hold a bool in is_complete
C26_BoolRoundTrip ==
    \A s \in Sessions :
        (/\ save_calls[s] > 0
         /\ save_result[s] = "True"
         /\ \A k \in 1..Len(Answers(s)) :
              Answers(s)[k].is_complete \in {"True", "False"}) =>
            load_session(files, s) =
              [found |-> TRUE, state |-> interview_state[s],
               feedback |-> feedback[s]]

----------------------------------------------------------------------------
\* C27: what the routing helper returns after the answer node is one of the
\* declared outcomes and fits the turn: the finalization when the catalog
\* is exhausted, the next question or a follow-up when it is not.
C27_RouteMatchesAction ==
    graph.routed # "none" =>
        /\ graph.routed \in RoutingOutcomes
        /\ graph.current_question_index >= Len(QUESTIONS)
             => graph.routed \in {"generate_feedback", "end"}
        /\ graph.current_question_index < Len(QUESTIONS)
             => graph.routed \in {"ask_question", "follow_up"}

\* what the graph does instead: with a question left the helper returns
\* "process_answer" and the run ends in the error; without one it returns
\* "generate_feedback"; the follow-up node is never run
GraphAsWired ==
    /\ graph.node # "follow_up"
    /\ graph.routed # "none" =>
         IF graph.current_question_index < Len(QUESTIONS)
         THEN graph.routed = "process_answer" /\ graph.node = "error"
         ELSE graph.routed = "generate_feedback"

----------------------------------------------------------------------------
\* the step in which validate_and_respond is called for a state that has no
\* current question
CalledPastCatalog(s) ==
    /\ AnswerRead(s)
    /\ pc'[s] # "reject"
    /\ Index(s) >= Len(QUESTIONS)

C29_Step(s) ==
    CalledPastCatalog(s) =>
        /\ result'[s].action = "complete"
        /\ result'[s].message = "THANKS"
        /\ interview_state'[s] = interview_state[s]
        /\ oracle_calls'[s] = oracle_calls[s]
        /\ oracle_arg'[s] = oracle_arg[s]
        /\ llm'[s] = llm[s]
        /\ pc'[s] = "status"

\* C29: called for a state whose index is past the catalog,
\* validate_and_respond returns the complete action at once: the text is
\* merged into no record, the oracle is not called, and the index and the
\* answers stay as they are.
C29_DefensiveExit == [][\A s \in Sessions : C29_Step(s)]_vars

\* C29 witness: the call was made with the state of a session that had
\* answered all 8 questions, and returned complete without an oracle call.
C29_Witness ==
    \E s \in Sessions :
        /\ pc[s] = "status"
        /\ result[s].action = "complete"
        /\ result[s].message = "THANKS"
        /\ answer_text[s].v = TextA
        /\ oracle_calls[s] = 0
        /\ Index(s) = 8
        /\ Len(Answers(s)) = 8

----------------------------------------------------------------------------
\* C31: the number of answer records is the index or the index plus one,
\* in every state: it is the index plus one while the answer to the current
\* question is with the oracle and after a turn that ended in a follow-up,
\* and the index after a turn that moved to the next question or completed
\* the catalog.
C31_CursorRecordAlignment ==
    \A s \in Sessions :
        /\ Len(Answers(s)) \in {Index(s), Index(s) + 1}
        /\ pc[s] = "oracle" => Len(Answers(s)) = Index(s) + 1
        /\ pc[s] \in {"reply", "status"} =>
             (result[s].action = "follow_up"
                <=> Len(Answers(s)) = Index(s) + 1)
        /\ (pc[s] = "recv" /\ Len(Answers(s)) = Index(s) + 1) =>
             /\ LastAnswer(s).follow_up_count >= 1
             /\ ~IsTrue(LastAnswer(s).is_complete)

\* C31 witness: the first two questions are left and a follow-up for the
\* third is pending: index 2, three records.
C31_Witness ==
    \E s \in Sessions :
        /\ pc[s] = "recv"
        /\ Index(s) = 2
        /\ Len(Answers(s)) = 3
        /\ LastAnswer(s).follow_up_count = 1

----------------------------------------------------------------------------
\* C32: no step changes a record other than the one of the question at
\* the index held before the step: the records of the questions already
\* left keep their answer_text, follow_up_count and is_complete (and every
\* other field), and no record is removed.
C32_PastRecordsFrozen ==
    [][\A s \in Sessions :
          /\ Len(Answers(s)') >= Len(Answers(s))
          /\ \A k \in 1..Len(Answers(s)) :
                k # Index(s) + 1 => Answers(s)'[k] = Answers(s)[k]]_vars

\* C32 witness: a turn on the second question has ended in a follow-up
\* while the record of the first question, which had a follow-up of its
\* own, is as it was left.
C32_Witness ==
    \E s \in Sessions :
        /\ pc[s] = "reply"
        /\ result[s].action = "follow_up"
        /\ Index(s) = 1
        /\ Len(Answers(s)) = 2
        /\ Answers(s)[1].follow_up_count = 1
        /\ Answers(s)[2].follow_up_count = 1

----------------------------------------------------------------------------
\* the session file holds the serialised form of the state in memory
StoredIsCurrent(s) ==
    /\ files[s].exists
    /\ files[s].readable
    /\ files[s].data = model_dump(interview_state[s], feedback[s])

\* a directive of a decided turn is about to be sent
DirectivePending(s) == pc[s] \in {"reply", "status"}

\* C33: the step that decides a turn calls save_session once with the
\* updated state, before the directive is sent; while the directive (next
\* question, follow-up or status message) is about to be sent, and when it
\* has been sent, the last snapshot given to the store is the state in
\* memory.
C33_PersistBeforeReply ==
    /\ [](\A s \in Sessions :
            DirectivePending(s) =>
                /\ save_result[s] = "True"
                /\ StoredIsCurrent(s))
    /\ [][\A s \in Sessions :
            /\ (pc[s] = "oracle" /\ DirectivePending(s)') =>
                  save_calls'[s] = save_calls[s] + 1
            /\ (DirectivePending(s) /\ pc'[s] # pc[s]) =>
                  /\ last_sent'[s] \in {"question", "status"}
                  /\ save_calls'[s] = save_calls[s]
                  /\ StoredIsCurrent(s)']_vars

\* C33 witness: a follow-up has been sent and the file holds the record
\* with its count, as the state in memory does.
C33_Witness ==
    \E s \in Sessions :
        /\ pc[s] = "recv"
        /\ last_sent[s] = "question"
        /\ Len(Answers(s)) = Index(s) + 1
        /\ LastAnswer(s).follow_up_count = 1
        /\ StoredIsCurrent(s)
        /\ save_calls[s] = Index(s) + 2

----------------------------------------------------------------------------
\* the handler has saved the final snapshot and has not ended otherwise
AfterFinalSave(s) == pc[s] \in {"send_feedback", "send_end", "done"}

\* the JSON text of a finished session: completed, stamped, one record for
\* each question of the catalog in its order, and a feedback
FinalSnapshot(data) ==
    /\ data.state.is_completed = "true"
    /\ data.state.completed_at # "null"
    /\ Len(data.state.answers) = Len(QUESTIONS)
    /\ \A k \in 1..Len(QUESTIONS) :
          data.state.answers[k].question_category = QUESTIONS[k].category
    /\ data.feedback \in FeedbackOutcomes

\* C34: where no write fails, from the save that follows generate_feedback
\* on (before the feedback message, before the session-end message and
\* after the handler has ended) the session file holds is_completed true,
\* a completed_at, the 8 answer records and a feedback; that save is made
\* before either message is sent and no later step writes the file.
C34_FinalSnapshotSaved ==
    /\ [](\A s \in Sessions :
            AfterFinalSave(s) =>
                /\ files[s].exists
                /\ files[s].readable
                /\ save_result[s] = "True"
                /\ FinalSnapshot(files[s].data)
                /\ files[s].data.feedback = feedback[s])
    /\ [][\A s \in Sessions :
            /\ (pc[s] = "feedback" /\ pc'[s] = "send_feedback") =>
                  /\ save_calls'[s] = save_calls[s] + 1
                  /\ last_sent[s] = "status"
                  /\ last_sent'[s] = "status"
            /\ AfterFinalSave(s) =>
                  /\ files'[s] = files[s]
                  /\ save_calls'[s] = save_calls[s]]_vars

\* C34 witness: the session-end message has been sent and the file holds
\* the final snapshot with the compiled feedback.
C34_Witness ==
    \E s \in Sessions :
        /\ pc[s] = "done"
        /\ last_sent[s] = "session_end"
        /\ FinalSnapshot(files[s].data)
        /\ files[s].data.feedback = "compiled"

----------------------------------------------------------------------------
\* the handler stands before a send_json
BeforeSend(s) ==
    pc[s] \in {"start", "greet", "first", "reject", "reply", "status",
               "send_feedback", "send_end", "crash"}

\* the step sends a message on the socket of s; its type is last_sent'[s]
SendsNow(s) == BeforeSend(s) /\ pc'[s] # pc[s]

\* the first question of the catalog, as the handler sends it
FirstQuestionMsg ==
    Msg("question", QUESTIONS[1].question_text, QUESTIONS[1].category, FALSE)

C35_Step(s) ==
    /\ last_sent'[s] # last_sent[s] => SendsNow(s)
    /\ (~SendsNow(s) /\ BeforeSend(s)) => outgoing'[s] = outgoing[s]
    /\ SendsNow(s) =>
         /\ last_sent'[s] = outgoing[s].type
         /\ last_sent[s] = "none" <=> last_sent'[s] = "session_start"
         /\ last_sent[s] = "session_start" =>
               /\ outgoing[s] = Msg("question", "GREETING", "", FALSE)
               /\ outgoing'[s] = FirstQuestionMsg
               /\ pc'[s] = "first"
         /\ pc[s] = "first" =>
               /\ last_sent[s] = "question"
               /\ outgoing[s] = FirstQuestionMsg
               /\ oracle_calls[s] = 0
         /\ last_sent'[s] = "status" => last_sent[s] \in {"question", "error"}
         /\ last_sent[s] = "status" <=> last_sent'[s] = "feedback"
         /\ last_sent[s] = "feedback" <=> last_sent'[s] = "session_end"
    /\ last_sent[s] = "session_end" =>
         /\ ~SendsNow(s)
         /\ pc'[s] = pc[s]
         /\ inbox'[s] >= inbox[s]
         /\ oracle_calls'[s] = oracle_calls[s]
         /\ interview_state'[s] = interview_state[s]

\* C35: session-start is the first message sent and is sent once, the
\* greeting is sent next and the first question after it; a status message
\* is followed by the feedback message and by nothing else, the feedback
\* message by the session-end message and by nothing else, each of the
\* three being sent only in this place; after session-end nothing is sent,
\* no frame is read and the oracle is not called.
C35_MessageOrder ==
    /\ [](\A s \in Sessions :
            /\ pc[s] = "greet" => last_sent[s] = "session_start"
            /\ pc[s] = "feedback" => last_sent[s] = "status"
            /\ pc[s] = "send_end" => last_sent[s] = "feedback"
            /\ pc[s] = "done" <=> last_sent[s] = "session_end")
    /\ [][\A s \in Sessions : C35_Step(s)]_vars

\* C35 witness: a session has gone through the catalog without a
\* follow-up and its session-end message is sent, with a frame unread.
C35_Witness ==
    \E s \in Sessions :
        /\ last_sent[s] = "session_end"
        /\ oracle_calls[s] = Len(QUESTIONS)
        /\ save_calls[s] = Len(QUESTIONS) + 2
        /\ inbox[s] > 0

----------------------------------------------------------------------------
\* the handler of s has initialised its session and has not ended
HandlerRuns(s) == pc[s] \notin {"idle", "done", "crashed", "disconnected"}

\* C36: a session id is in active_sessions exactly while its handler runs,
\* from the initialisation of the session to the end of the handler by
\* completion, by a disconnect or by an error; and a step of one handler
\* leaves the entries of the other sessions as they are.
C36_ActiveSessionRegistry ==
    /\ [](\A s \in Sessions : s \in active_sessions <=> HandlerRuns(s))
    /\ [][\A s \in Sessions :
            pc'[s] = pc[s] =>
                (s \in active_sessions' <=> s \in active_sessions)]_vars

\* C36 witness: one handler has ended by a disconnect while the other
\* session is in its interview, registered.
C36_Witness ==
    \E s, t \in Sessions :
        /\ pc[s] = "disconnected"
        /\ s \notin active_sessions
        /\ pc[t] = "recv"
        /\ oracle_calls[t] > 0
        /\ t \in active_sessions

====
